---- MODULE Spec2Model ----
(***************************************************************************)
(* Model of the configuration resolver ConfigReader                        *)
(* (POM-Framework/utilities/ConfigReader.ts) and of the environment table  *)
(* it reads (POM-Tests/test.config.ts).                                    *)
(*                                                                         *)
(* Values.  Every JavaScript value is a record.  A string is               *)
(* [str |-> pieces], the sequence of its pieces; it denotes their          *)
(* concatenation, so template literals and + are ++ and '' is Str(<<>>).   *)
(* The character "/" is always a piece of its own, every other piece of a  *)
(* URL or path is a non-empty slash-free substring.                        *)
(* Credential keys and the names of their override variables are spelled   *)
(* one character per piece, because toUpperCase and the character class    *)
(* [^A-Z0-9] act on single characters.                                     *)
(*                                                                         *)
(* Objects.  A plain object is [entries |-> <<[k |-> key, v |-> value]>>], *)
(* its own properties in insertion order (the order of Object.keys).       *)
(* Property reads obj[k] also see the properties every plain object        *)
(* inherits from Object.prototype.                                         *)
(***************************************************************************)
EXTENDS Integers, Sequences, FiniteSets, TLC

VARIABLES
    testConfig,          \* the environment table, read-only after load
    processEnv,          \* process.env: variable name -> string
    cache,               \* ConfigReader.cache: cache key -> config
    cacheEnabled,        \* ConfigReader.cacheEnabled
    currentEnvironment,  \* ConfigReader.currentEnvironment: string | null
    lastClear,           \* history: currentEnvironment at entry and exit of the latest clearCache()
    last,                \* history: the latest call, its arguments, its outcome, the lines it logged, the statics before it
    retryFrame,          \* the frame of the Helpers.retry call in progress, and what it has done so far
    dataProvider         \* DataProvider.cache, DataProvider.cacheEnabled and the getData calls awaiting their file read

vars == <<testConfig, processEnv, cache, cacheEnabled, currentEnvironment, lastClear, last,
          retryFrame, dataProvider>>

(* JavaScript values *)

Null == [null |-> TRUE]
Undefined == [undefined |-> TRUE]

Str(pieces) == [str |-> pieces]
EmptyString == Str(<< >>)

\* a + b, `${a}${b}`
a ++ b == Str(a.str \o b.str)

\* truthiness under which '' counts as a value
TruthyOrEmpty(v) == v # [null |-> TRUE] /\ v # [undefined |-> TRUE]

\* JavaScript truthiness of the values the resolver tests: null, undefined
\* and '' are falsy; non-empty strings, objects and functions are truthy.
Truthy(v) == v # Null /\ v # Undefined /\ v # EmptyString

\* a || b
Or(a, b) == IF Truthy(a) THEN a ELSE b

Range(s) == {s[i] : i \in DOMAIN s}

\* Object.prototype's properties, inherited by every object literal; one
\* representative name, in both spellings (whole and character by character).  Its value is the function Object, whose own
\* property "name" is 'Object' and which has none of the config fields.
InheritedKeys == {Str(<<"constructor">>), Str(<<"c","o","n","s","t","r","u","c","t","o","r">>)}
ObjectFn == [function |-> "Object", name |-> Str(<<"Object">>)]

EmptyObject == [entries |-> << >>]

\* Object.keys(obj)
OwnKeys(obj) == [i \in DOMAIN obj.entries |-> obj.entries[i].k]

HasOwn(obj, key) == \E i \in DOMAIN obj.entries : obj.entries[i].k = key

\* key in obj
In(key, obj) == HasOwn(obj, key) \/ key \in InheritedKeys

\* obj[key]
Prop(obj, key) ==
    IF HasOwn(obj, key)
    THEN obj.entries[CHOOSE i \in DOMAIN obj.entries : obj.entries[i].k = key].v
    ELSE IF key \in InheritedKeys THEN ObjectFn ELSE Undefined

\* rec.field of a record whose field may be missing
Field(rec, f) == IF f \in DOMAIN rec THEN rec[f] ELSE Undefined

\* process.env[name]
EnvVar(name) == IF name \in DOMAIN processEnv THEN processEnv[name] ELSE Undefined

\* new Map()
EmptyMap == << >>

\* Outcomes of a call: a returned value or a thrown error.
Return(v) == [kind |-> "ok", val |-> v]
\* info holds the parts the error message is built from
Throw(kind, info) == [kind |-> kind, info |-> info]
TypeError == [kind |-> "TypeError"]

(* The shipped environment table, POM-Tests/test.config.ts *)

Obj1(k1, v1) == [entries |-> <<[k |-> k1, v |-> v1]>>]
Entry(key, value) == [k |-> key, v |-> value]
Cred(u, p) == [username |-> u, password |-> p]

K_admin == Str(<<"a","d","m","i","n">>)
K_testUser1 == Str(<<"t","e","s","t","U","s","e","r","1">>)
K_testUser2 == Str(<<"t","e","s","t","U","s","e","r","2">>)
K_readOnlyUser == Str(<<"r","e","a","d","O","n","l","y","U","s","e","r">>)
K_RBCClient == Str(<<"R","B","C","C","l","i","e","n","t">>)
K_TDFClient == Str(<<"T","D","F","C","l","i","e","n","t">>)

ShippedPaths(site, login) ==
    [entries |-> << Entry(Str(<<"site">>), site),
                    Entry(Str(<<"highway">>), Str(<<"repohighway">>)),
                    Entry(Str(<<"login">>), login),
                    Entry(Str(<<"home">>), Str(<<"/", "home">>)),
                    Entry(Str(<<"logout">>), Str(<<"/", "logout">>)),
                    Entry(Str(<<"settings">>), Str(<<"/", "settings">>)) >>]

DevEnvironment ==
    [name |-> Str(<<"Development">>),
     baseUrl |-> EmptyString,
     urlConfig |-> [protocol |-> Str(<<"https">>), envPrefix |-> Str(<<"dev">>),
                    subdomain |-> Str(<<"repohighway">>), domain |-> Str(<<"devservices.dh.com">>)],
     domainPaths |-> ShippedPaths(Str(<<"DEV">>), Str(<<"/", "go.aspx">>)),
     credentials |-> [entries |-> <<
        Entry(K_admin, Cred(Str(<<"admin@example.com">>), Str(<<"Admin123!">>))),
        Entry(K_testUser1, Cred(Str(<<"testuser1@example.com">>), Str(<<"TestUser123!">>))),
        Entry(K_testUser2, Cred(Str(<<"testuser2@example.com">>), Str(<<"TestUser456!">>))),
        Entry(K_readOnlyUser, Cred(Str(<<"readonly@example.com">>), Str(<<"ReadOnly123!">>))) >>]]

QAEnvironment ==
    [name |-> Str(<<"QA">>),
     baseUrl |-> EmptyString,
     urlConfig |-> [protocol |-> Str(<<"https">>), envPrefix |-> Str(<<"qa2">>),
                    subdomain |-> Str(<<"repohighway">>), domain |-> Str(<<"devservices.dh.com">>)],
     domainPaths |-> ShippedPaths(Str(<<"QA">>), Str(<<"/", "go.aspx">>)),
     credentials |-> [entries |-> <<
        Entry(K_RBCClient, Cred(Str(<<"MIJIRBC">>), Str(<<"Assetuse@1">>))),
        Entry(K_TDFClient, Cred(Str(<<"MIJITDF">>), Str(<<"Assetuse@2">>))),
        Entry(K_testUser2, Cred(Str(<<"staginguser2@example.com">>), Str(<<"StagingUser456!">>))),
        Entry(K_readOnlyUser, Cred(Str(<<"readonly@example.com">>), Str(<<"ReadOnly123!">>))) >>]]

ProdEnvironment ==
    [name |-> Str(<<"Production">>),
     baseUrl |-> EmptyString,
     urlConfig |-> [protocol |-> Str(<<"https">>), envPrefix |-> Str(<<"prod">>),
                    subdomain |-> Str(<<"repohighway">>), domain |-> Str(<<"dh.com">>)],
     domainPaths |-> ShippedPaths(Str(<<"PROD">>), Str(<<"/", "go.aspx">>)),
     credentials |-> [entries |-> <<
        Entry(K_admin, Cred(Str(<<"prod.admin@example.com">>), Str(<<"ProdAdmin123!">>))),
        Entry(K_testUser1, Cred(Str(<<"produser1@example.com">>), Str(<<"ProdUser123!">>))),
        Entry(K_testUser2, Cred(Str(<<"produser2@example.com">>), Str(<<"ProdUser456!">>))),
        Entry(K_readOnlyUser, Cred(Str(<<"prod.readonly@example.com">>), Str(<<"ProdReadOnly123!">>))) >>]]

LocalEnvironment ==
    [name |-> Str(<<"Local">>),
     baseUrl |-> Str(<<"http:", "/", "/", "localhost:3000">>),
     domainPaths |-> ShippedPaths(Str(<<"LOCAL">>), Str(<<"/", "login">>)),
     credentials |-> [entries |-> <<
        Entry(K_admin, Cred(Str(<<"admin@localhost">>), Str(<<"local123">>))),
        Entry(K_testUser1, Cred(Str(<<"test@localhost">>), Str(<<"test123">>))),
        Entry(K_testUser2, Cred(Str(<<"user@localhost">>), Str(<<"user123">>))),
        Entry(K_readOnlyUser, Cred(Str(<<"readonly@localhost">>), Str(<<"readonly123">>))) >>]]

ShippedConfig ==
    [environments |-> [entries |-> << Entry(Str(<<"dev">>), DevEnvironment),
                                      Entry(Str(<<"QA">>), QAEnvironment),
                                      Entry(Str(<<"prod">>), ProdEnvironment),
                                      Entry(Str(<<"local">>), LocalEnvironment) >>]]

\* Building blocks of the tables the specifications below start from.
OnePath == Obj1(Str(<<"login">>), Str(<<"/", "login">>))
OneCredential == Obj1(K_admin, Cred(Str(<<"admin@localhost">>), Str(<<"local123">>)))
FullUrlConfig ==
    [protocol |-> Str(<<"https">>), envPrefix |-> Str(<<"qa2">>),
     subdomain |-> Str(<<"repohighway">>), domain |-> Str(<<"devservices.dh.com">>)]
LegacyUrl == Str(<<"http:", "/", "/", "localhost:3000">>)

(* ConfigReader: the static fields as one record, and the methods as       *)
(* functions from the statics (and arguments) to the new statics and the   *)
(* outcome.                                                                *)

Statics ==
    [cache |-> cache, cacheEnabled |-> cacheEnabled,
     currentEnvironment |-> currentEnvironment, lastClear |-> lastClear]

TEST_ENV == Str(<<"TEST_ENV">>)
BASE_URL == Str(<<"BASE_URL">>)
ENV_PREFIX == Str(<<"ENV_PREFIX">>)
SUBDOMAIN == Str(<<"SUBDOMAIN">>)

\* clearCache that drops only the entry of the active environment
clearCacheActiveOnly(m) ==
    LET activeKey == Str(<<"env_">>) ++ (IF Truthy(m.currentEnvironment) THEN m.currentEnvironment
                                          ELSE Or(EnvVar(TEST_ENV), Str(<<"QA">>)))
        out == [m EXCEPT !.cache = [k \in DOMAIN m.cache \ {activeKey} |-> m.cache[k]],
                         !.currentEnvironment = Null]
    IN  [out EXCEPT !.lastClear = [before |-> m.currentEnvironment,
                                   after |-> out.currentEnvironment]]

clearCache(m) ==
    LET out == [m EXCEPT !.cache = EmptyMap, !.currentEnvironment = Null]
    IN  [out EXCEPT !.lastClear = [before |-> m.currentEnvironment,
                                   after |-> out.currentEnvironment]]

\* setCaching that only records the flag
setCachingFlagOnly(m, enabled) == [m EXCEPT !.cacheEnabled = enabled]

setCaching(m, enabled) ==
    LET m1 == [m EXCEPT !.cacheEnabled = enabled]
    IN  IF ~enabled THEN clearCache(m1) ELSE m1

getEnvironmentName(m) ==
    IF Truthy(m.currentEnvironment)
    THEN m.currentEnvironment
    ELSE Or(EnvVar(TEST_ENV), Str(<<"QA">>))

hasEnvironment(envName) == In(envName, testConfig.environments)

getAvailableEnvironments == OwnKeys(testConfig.environments)

\* setEnvironment that keeps the cache when the name is already the active one
setEnvironmentKeepingCache(m, envName) ==
    IF ~hasEnvironment(envName)
    THEN [m |-> m, res |-> Throw("UnknownEnvironment", [env |-> envName, available |-> getAvailableEnvironments])]
    ELSE IF envName = getEnvironmentName(m)
    THEN [m |-> [m EXCEPT !.currentEnvironment = Null], res |-> Return(Undefined)]
    ELSE [m |-> clearCache([m EXCEPT !.currentEnvironment = envName]),
          res |-> Return(Undefined)]

\* setEnvironment that clears the cache before it looks the name up
setEnvironmentClearingFirst(m, envName) ==
    IF ~hasEnvironment(envName)
    THEN [m |-> clearCache(m),
          res |-> Throw("UnknownEnvironment", [env |-> envName, available |-> getAvailableEnvironments])]
    ELSE [m |-> clearCache([m EXCEPT !.currentEnvironment = envName]),
          res |-> Return(Undefined)]

setEnvironment(m, envName) ==
    IF ~hasEnvironment(envName)
    THEN [m |-> m, res |-> Throw("UnknownEnvironment", [env |-> envName, available |-> getAvailableEnvironments])]
    ELSE [m |-> clearCache([m EXCEPT !.currentEnvironment = envName]),
          res |-> Return(Undefined)]

cacheKeyOf(env) == Str(<<"env_">>) ++ env

\* getEnvironmentConfig that falls back to the QA entry for a name it does not find
getEnvironmentConfigWithFallback(m, envName) ==
    LET env == Or(envName, getEnvironmentName(m))
        cacheKey == cacheKeyOf(env)
        config == Or(Prop(testConfig.environments, env), Prop(testConfig.environments, Str(<<"QA">>)))
    IN  IF m.cacheEnabled /\ cacheKey \in DOMAIN m.cache
        THEN [m |-> m, res |-> Return(m.cache[cacheKey])]
        ELSE IF ~Truthy(config)
        THEN [m |-> m, res |-> Throw("UnknownEnvironment", [env |-> env, available |-> getAvailableEnvironments])]
        ELSE [m |-> IF m.cacheEnabled
                    THEN [m EXCEPT !.cache = (cacheKey :> config) @@ m.cache]
                    ELSE m,
              res |-> Return(config)]

\* getEnvironmentConfig that never stores what it resolves
getEnvironmentConfigNoStore(m, envName) ==
    LET env == Or(envName, getEnvironmentName(m))
        cacheKey == cacheKeyOf(env)
        config == Prop(testConfig.environments, env)
    IN  IF m.cacheEnabled /\ cacheKey \in DOMAIN m.cache
        THEN [m |-> m, res |-> Return(m.cache[cacheKey])]
        ELSE IF ~Truthy(config)
        THEN [m |-> m, res |-> Throw("UnknownEnvironment", [env |-> env, available |-> getAvailableEnvironments])]
        ELSE [m |-> m, res |-> Return(config)]

getEnvironmentConfig(m, envName) ==
    LET env == Or(envName, getEnvironmentName(m))
        cacheKey == cacheKeyOf(env)
        config == Prop(testConfig.environments, env)
    IN  IF m.cacheEnabled /\ cacheKey \in DOMAIN m.cache
        THEN [m |-> m, res |-> Return(m.cache[cacheKey])]
        ELSE IF ~Truthy(config)
        THEN [m |-> m, res |-> Throw("UnknownEnvironment", [env |-> env, available |-> getAvailableEnvironments])]
        ELSE [m |-> IF m.cacheEnabled
                    THEN [m EXCEPT !.cache = (cacheKey :> config) @@ m.cache]
                    ELSE m,
              res |-> Return(config)]


\* `${v}` of a value that may be undefined
Text(v) == IF v = Undefined THEN Str(<<"undefined">>) ELSE v

\* buildBaseUrl in which ENV_PREFIX beats the argument
buildBaseUrlEnvFirst(urlConfig, envPrefixOverride) ==
    LET prefix == Or(Or(EnvVar(ENV_PREFIX), envPrefixOverride), Field(urlConfig, "envPrefix"))
        subdomain == Or(EnvVar(SUBDOMAIN), Field(urlConfig, "subdomain"))
        domain == Field(urlConfig, "domain")
    IN  Text(Field(urlConfig, "protocol")) ++ Str(<<":", "/", "/">>) ++ Text(prefix)
            ++ Text(subdomain) ++ Str(<<".">>) ++ Text(domain)

buildBaseUrl(urlConfig, envPrefixOverride) ==
    LET prefix == Or(Or(envPrefixOverride, EnvVar(ENV_PREFIX)), Field(urlConfig, "envPrefix"))
        subdomain == Or(EnvVar(SUBDOMAIN), Field(urlConfig, "subdomain"))
        domain == Field(urlConfig, "domain")
    IN  Text(Field(urlConfig, "protocol")) ++ Str(<<":", "/", "/">>) ++ Text(prefix)
            ++ Text(subdomain) ++ Str(<<".">>) ++ Text(domain)

\* getBaseUrl that consults BASE_URL only after urlConfig
getBaseUrlPreferringUrlConfig(m, envName) ==
    LET r == getEnvironmentConfig(m, envName)
        config == r.res.val
    IN  IF r.res.kind = "ok" /\ Truthy(Field(config, "urlConfig"))
        THEN [m |-> r.m, res |-> Return(buildBaseUrl(config.urlConfig, Undefined))]
        ELSE IF Truthy(EnvVar(BASE_URL))
        THEN [m |-> m, res |-> Return(EnvVar(BASE_URL))]
        ELSE IF r.res.kind # "ok" THEN r
        ELSE IF Truthy(Field(config, "baseUrl"))
        THEN [m |-> r.m, res |-> Return(config.baseUrl)]
        ELSE [m |-> r.m, res |-> Throw("MissingBaseUrl", [env |-> Field(config, "name")])]

\* getBaseUrl that keeps the URL it computed first in the cache
getBaseUrlSnapshot(m, envName) ==
    LET urlKey == Str(<<"url_">>) ++ Text(Or(envName, getEnvironmentName(m)))
        r == getEnvironmentConfig(m, envName)
        config == r.res.val
        computed ==
            IF Truthy(EnvVar(BASE_URL))
            THEN [m |-> m, res |-> Return(EnvVar(BASE_URL))]
            ELSE IF r.res.kind # "ok" THEN r
            ELSE IF Truthy(Field(config, "urlConfig"))
            THEN [m |-> r.m, res |-> Return(buildBaseUrl(config.urlConfig, Undefined))]
            ELSE IF Truthy(Field(config, "baseUrl"))
            THEN [m |-> r.m, res |-> Return(config.baseUrl)]
            ELSE [m |-> r.m, res |-> Throw("MissingBaseUrl", [env |-> Field(config, "name")])]
    IN  IF m.cacheEnabled /\ urlKey \in DOMAIN m.cache
        THEN [m |-> m, res |-> Return(m.cache[urlKey])]
        ELSE IF computed.res.kind = "ok" /\ m.cacheEnabled
        THEN [m |-> [computed.m EXCEPT !.cache = (urlKey :> computed.res.val) @@ computed.m.cache],
              res |-> computed.res]
        ELSE computed

getBaseUrl(m, envName) ==
    IF Truthy(EnvVar(BASE_URL))
    THEN [m |-> m, res |-> Return(EnvVar(BASE_URL))]
    ELSE LET r == getEnvironmentConfig(m, envName)
             config == r.res.val
         IN  IF r.res.kind # "ok" THEN r
             ELSE IF Truthy(Field(config, "urlConfig"))
             THEN [m |-> r.m, res |-> Return(buildBaseUrl(config.urlConfig, Undefined))]
             ELSE IF Truthy(Field(config, "baseUrl"))
             THEN [m |-> r.m, res |-> Return(config.baseUrl)]
             ELSE [m |-> r.m, res |-> Throw("MissingBaseUrl", [env |-> Field(config, "name")])]

getDomainPath(m, pathKey, envName) ==
    LET r == getEnvironmentConfig(m, envName)
        config == r.res.val
        domainPaths == Field(config, "domainPaths")
        path == Prop(domainPaths, pathKey)
    IN  IF r.res.kind # "ok" THEN r
        ELSE IF domainPaths = Undefined THEN [m |-> r.m, res |-> TypeError]
        ELSE IF ~Truthy(path)
        THEN [m |-> r.m,
              res |-> Throw("UnknownPath", [key |-> pathKey, env |-> Field(config, "name"),
                                            available |-> OwnKeys(domainPaths)])]
        ELSE [m |-> r.m, res |-> Return(path)]

\* baseUrl.replace(/\/$/, '')
stripTrailingSlash(s) ==
    IF Len(s.str) > 0 /\ s.str[Len(s.str)] = "/"
    THEN Str(SubSeq(s.str, 1, Len(s.str) - 1))
    ELSE s

\* `/${path}` whatever path starts with
alwaysPrefixSlash(s) == Str(<<"/">>) ++ s

\* path.startsWith('/') ? path : `/${path}`
ensureLeadingSlash(s) ==
    IF Len(s.str) > 0 /\ s.str[1] = "/" THEN s ELSE Str(<<"/">>) ++ s

getUrl(m, pathKey, envName) ==
    LET b == getBaseUrl(m, envName)
        p == getDomainPath(b.m, pathKey, envName)
    IN  IF b.res.kind # "ok" THEN b
        ELSE IF p.res.kind # "ok" THEN p
        ELSE IF p.res.val = ObjectFn THEN [m |-> p.m, res |-> TypeError]
        ELSE [m |-> p.m,
              res |-> Return(stripTrailingSlash(b.res.val) ++ ensureLeadingSlash(p.res.val))]

LowerCase == <<"a","b","c","d","e","f","g","h","i","j","k","l","m",
               "n","o","p","q","r","s","t","u","v","w","x","y","z">>
UpperCase == <<"A","B","C","D","E","F","G","H","I","J","K","L","M",
               "N","O","P","Q","R","S","T","U","V","W","X","Y","Z">>
Digits == {"0","1","2","3","4","5","6","7","8","9"}

\* s.toUpperCase(), character by character
toUpperCase(s) ==
    Str([i \in DOMAIN s.str |->
            IF s.str[i] \in Range(LowerCase)
            THEN UpperCase[CHOOSE j \in DOMAIN LowerCase : LowerCase[j] = s.str[i]]
            ELSE s.str[i]])

\* s.replace(/[^A-Z0-9]/g, '_')
replaceNonAlnum(s) ==
    Str([i \in DOMAIN s.str |->
            IF s.str[i] \in Range(UpperCase) \cup Digits THEN s.str[i] ELSE "_"])

\* the raw credential key as prefix
envKeyPrefixRaw(credentialKey) == credentialKey

envKeyPrefixOf(credentialKey) == replaceNonAlnum(toUpperCase(credentialKey))

USERNAME_SUFFIX == Str(<<"_","U","S","E","R","N","A","M","E">>)
PASSWORD_SUFFIX == Str(<<"_","P","A","S","S","W","O","R","D">>)

\* getCredentials that applies the overrides only as a pair
getCredentialsPairOverride(m, credentialKey, envName) ==
    LET r == getEnvironmentConfig(m, envName)
        config == r.res.val
        all == Field(config, "credentials")
        credentials == Prop(all, credentialKey)
        envKeyPrefix == envKeyPrefixOf(credentialKey)
        usernameOverride == EnvVar(envKeyPrefix ++ USERNAME_SUFFIX)
        passwordOverride == EnvVar(envKeyPrefix ++ PASSWORD_SUFFIX)
    IN  IF r.res.kind # "ok" THEN r
        ELSE IF all = Undefined THEN [m |-> r.m, res |-> TypeError]
        ELSE IF ~Truthy(credentials)
        THEN [m |-> r.m,
              res |-> Throw("UnknownCredential", [key |-> credentialKey, env |-> Field(config, "name"),
                                                  available |-> OwnKeys(all)])]
        ELSE IF Truthy(usernameOverride) /\ Truthy(passwordOverride)
        THEN [m |-> r.m, res |-> Return([username |-> usernameOverride, password |-> passwordOverride])]
        ELSE [m |-> r.m,
              res |-> Return([username |-> Field(credentials, "username"),
                              password |-> Field(credentials, "password")])]

\* getCredentials that falls back to the overrides of 'RBCClient' for every key
getCredentialsSharedOverride(m, credentialKey, envName) ==
    LET r == getEnvironmentConfig(m, envName)
        config == r.res.val
        all == Field(config, "credentials")
        credentials == Prop(all, credentialKey)
        envKeyPrefix == envKeyPrefixOf(credentialKey)
        usernameOverride == Or(EnvVar(envKeyPrefix ++ USERNAME_SUFFIX),
                               EnvVar(envKeyPrefixOf(K_RBCClient) ++ USERNAME_SUFFIX))
        passwordOverride == Or(EnvVar(envKeyPrefix ++ PASSWORD_SUFFIX),
                               EnvVar(envKeyPrefixOf(K_RBCClient) ++ PASSWORD_SUFFIX))
    IN  IF r.res.kind # "ok" THEN r
        ELSE IF all = Undefined THEN [m |-> r.m, res |-> TypeError]
        ELSE IF ~Truthy(credentials)
        THEN [m |-> r.m,
              res |-> Throw("UnknownCredential", [key |-> credentialKey, env |-> Field(config, "name"),
                                                  available |-> OwnKeys(all)])]
        ELSE [m |-> r.m,
              res |-> Return([username |-> Or(usernameOverride, Field(credentials, "username")),
                              password |-> Or(passwordOverride, Field(credentials, "password"))])]

getCredentials(m, credentialKey, envName) ==
    LET r == getEnvironmentConfig(m, envName)
        config == r.res.val
        all == Field(config, "credentials")
        credentials == Prop(all, credentialKey)
        envKeyPrefix == envKeyPrefixOf(credentialKey)
        usernameOverride == EnvVar(envKeyPrefix ++ USERNAME_SUFFIX)
        passwordOverride == EnvVar(envKeyPrefix ++ PASSWORD_SUFFIX)
    IN  IF r.res.kind # "ok" THEN r
        ELSE IF all = Undefined THEN [m |-> r.m, res |-> TypeError]
        ELSE IF ~Truthy(credentials)
        THEN [m |-> r.m,
              res |-> Throw("UnknownCredential", [key |-> credentialKey, env |-> Field(config, "name"),
                                                  available |-> OwnKeys(all)])]
        ELSE [m |-> r.m,
              res |-> Return([username |-> Or(usernameOverride, Field(credentials, "username")),
                              password |-> Or(passwordOverride, Field(credentials, "password"))])]

\* The checks validateConfig makes on one environment, in the order of the
\* code; the outcome is the first error thrown, or Return(TRUE) when the
\* loop body completes.
MissingField(envName, f) == Throw("MissingField", [env |-> envName, field |-> f])

validateEnvironment(envName) ==
    LET config == Prop(testConfig.environments, envName)
        urlConfig == Field(config, "urlConfig")
        credentials == Field(config, "credentials")
        credentialKeys == OwnKeys(credentials)
        incomplete == {i \in DOMAIN credentialKeys :
                          \/ ~Truthy(Field(Prop(credentials, credentialKeys[i]), "username"))
                          \/ ~Truthy(Field(Prop(credentials, credentialKeys[i]), "password"))}
    IN  IF ~Truthy(Field(config, "name")) THEN MissingField(envName, "name")
        ELSE IF ~Truthy(Field(config, "baseUrl")) THEN MissingField(envName, "baseUrl")
        ELSE IF ~Truthy(Field(config, "domainPaths")) THEN MissingField(envName, "domainPaths")
        ELSE IF ~Truthy(credentials) THEN MissingField(envName, "credentials")
        ELSE IF Truthy(urlConfig) /\ ~Truthy(Field(urlConfig, "protocol"))
        THEN MissingField(envName, "urlConfig.protocol")
        ELSE IF Truthy(urlConfig) /\ ~Truthy(Field(urlConfig, "envPrefix"))
        THEN MissingField(envName, "urlConfig.envPrefix")
        ELSE IF Truthy(urlConfig) /\ ~Truthy(Field(urlConfig, "subdomain"))
        THEN MissingField(envName, "urlConfig.subdomain")
        ELSE IF Truthy(urlConfig) /\ ~Truthy(Field(urlConfig, "domain"))
        THEN MissingField(envName, "urlConfig.domain")
        ELSE IF Len(OwnKeys(config.domainPaths)) = 0
        THEN Throw("EmptyPathSet", [env |-> envName])
        ELSE IF Len(credentialKeys) = 0
        THEN Throw("EmptyCredentialSet", [env |-> envName])
        ELSE IF incomplete # {}
        THEN Throw("IncompleteCredentialPair",
                   [env |-> envName,
                    key |-> credentialKeys[CHOOSE i \in incomplete : \A j \in incomplete : i <= j]])
        ELSE Return(TRUE)

validateConfig ==
    LET environments == getAvailableEnvironments
        failing == {i \in DOMAIN environments : validateEnvironment(environments[i]).kind # "ok"}
    IN  IF Len(environments) = 0 THEN Throw("NoEnvironments", [env |-> Undefined])
        ELSE IF failing # {}
        THEN validateEnvironment(environments[CHOOSE i \in failing : \A j \in failing : i <= j])
        ELSE Return(TRUE)

(* The lines each method hands to logger.info and logger.warn, in the     *)
(* order it emits them; the statics m are those at the start of the call.  *)

getEnvironmentNameLog(m) ==
    IF Truthy(m.currentEnvironment)
    THEN << >>
    ELSE << Str(<<"Current test environment: ">>) ++ Or(EnvVar(TEST_ENV), Str(<<"QA">>)) >>

buildBaseUrlLog(urlConfig, envPrefixOverride) ==
    LET prefix == Or(Or(envPrefixOverride, EnvVar(ENV_PREFIX)), Field(urlConfig, "envPrefix"))
        subdomain == Or(EnvVar(SUBDOMAIN), Field(urlConfig, "subdomain"))
    IN  << Str(<<"Built base URL: ">>) ++ buildBaseUrl(urlConfig, envPrefixOverride)
             ++ Str(<<" (prefix: ">>) ++ Text(prefix)
             ++ Str(<<", subdomain: ">>) ++ Text(subdomain) ++ Str(<<")">>) >>

\* envName || this.getEnvironmentName() calls getEnvironmentName only for a
\* falsy envName
getEnvironmentConfigLog(m, envName) ==
    IF Truthy(envName) THEN << >> ELSE getEnvironmentNameLog(m)

getBaseUrlLog(m, envName) ==
    IF Truthy(EnvVar(BASE_URL))
    THEN << Str(<<"Using BASE_URL from environment: ">>) ++ EnvVar(BASE_URL) >>
    ELSE LET r == getEnvironmentConfig(m, envName)
             config == r.res.val
         IN  getEnvironmentConfigLog(m, envName) \o
             (IF r.res.kind # "ok" THEN << >>
              ELSE IF Truthy(Field(config, "urlConfig"))
              THEN buildBaseUrlLog(config.urlConfig, Undefined)
              ELSE IF Truthy(Field(config, "baseUrl"))
              THEN << Str(<<"Using legacy baseUrl for ">>) ++ Text(Field(config, "name"))
                        ++ Str(<<". Consider migrating to urlConfig.">>) >>
              ELSE << >>)

getUrlLog(m, pathKey, envName) ==
    LET b == getBaseUrl(m, envName)
        r == getUrl(m, pathKey, envName)
    IN  getBaseUrlLog(m, envName) \o
        (IF b.res.kind # "ok" THEN << >>
         ELSE getEnvironmentConfigLog(m, envName) \o
              (IF r.res.kind # "ok" THEN << >>
               ELSE << Str(<<"Constructed URL for \"">>) ++ pathKey ++ Str(<<"\": ">>) ++ r.res.val >>))

\* getCredentials that also writes the password into its last line
getCredentialsLogWithPassword(m, credentialKey, envName) ==
    LET r == getCredentials(m, credentialKey, envName)
    IN  getEnvironmentConfigLog(m, envName) \o
        (IF r.res.kind # "ok" THEN << >>
         ELSE << Str(<<"Retrieved credentials for: ">>) ++ credentialKey
                   ++ Str(<<" (username: ">>) ++ Text(r.res.val.username)
                   ++ Str(<<", password: ">>) ++ Text(r.res.val.password) ++ Str(<<")">>) >>)

getCredentialsLog(m, credentialKey, envName) ==
    LET r == getCredentials(m, credentialKey, envName)
        envKeyPrefix == envKeyPrefixOf(credentialKey)
        usernameOverride == EnvVar(envKeyPrefix ++ USERNAME_SUFFIX)
        passwordOverride == EnvVar(envKeyPrefix ++ PASSWORD_SUFFIX)
    IN  getEnvironmentConfigLog(m, envName) \o
        (IF r.res.kind # "ok" THEN << >>
         ELSE (IF Truthy(usernameOverride)
               THEN << Str(<<"Using username override from environment for \"">>) ++ credentialKey
                         ++ Str(<<"\": ">>) ++ usernameOverride >>
               ELSE << >>) \o
              (IF Truthy(passwordOverride)
               THEN << Str(<<"Using password override from environment for \"">>) ++ credentialKey
                         ++ Str(<<"\"">>) >>
               ELSE << >>) \o
              << Str(<<"Retrieved credentials for: ">>) ++ credentialKey
                   ++ Str(<<" (username: ">>) ++ Text(r.res.val.username) ++ Str(<<")">>) >>)

clearCacheLog == << Str(<<"ConfigReader cache cleared">>) >>

setCachingLog(enabled) ==
    (IF ~enabled THEN clearCacheLog ELSE << >>) \o
    << Str(<<"ConfigReader caching ">>) ++ (IF enabled THEN Str(<<"enabled">>) ELSE Str(<<"disabled">>)) >>

setEnvironmentLog(envName) ==
    IF ~hasEnvironment(envName) THEN << >>
    ELSE clearCacheLog \o << Str(<<"Environment set to: ">>) ++ envName >>

validateConfigLog ==
    << Str(<<"Validating test configuration...">>) >> \o
    (IF validateConfig.kind = "ok" THEN << Str(<<"Configuration validation passed">>) >> ELSE << >>)

(* Helpers.retry and DataProvider before their first call *)

\* no Helpers.retry call has been made
NoRetry ==
    [pc |-> "idle", maxRetries |-> 0, delay |-> 0, i |-> 0, started |-> 0,
     calls |-> << >>, sleeps |-> << >>, log |-> << >>, res |-> Return(Undefined)]

\* DataProvider's static fields at load; reads are the getData calls that
\* await CsvReader.read or ExcelReader.read, in the order they began; clears
\* counts the clearCache() calls made so far and res is the outcome of the
\* latest call that settled
DataProviderLoaded ==
    [cache |-> EmptyMap, cacheEnabled |-> TRUE, reads |-> << >>, clears |-> 0,
     res |-> Return(Undefined)]

(* The state machine: one action per public method call, and the writes    *)
(* the test orchestration makes to process.env between calls.              *)

Before == [cache |-> cache, cacheEnabled |-> cacheEnabled, currentEnvironment |-> currentEnvironment]

Commit(m) ==
    /\ cache' = m.cache
    /\ cacheEnabled' = m.cacheEnabled
    /\ currentEnvironment' = m.currentEnvironment
    /\ lastClear' = m.lastClear

NoArgs == [none |-> TRUE]

\* A call on ConfigReader, the login scenario or process.env touches neither
\* a Helpers.retry frame nor DataProvider.
Record(op, args, res, log) ==
    /\ last' = [op |-> op, args |-> args, res |-> res, before |-> Before, log |-> log]
    /\ UNCHANGED <<retryFrame, dataProvider>>

\* Arguments the calls are made with.  Undefined is an omitted optional
\* argument; "ghost" is in no table; '' is the empty string.
EnvNameArgs == {Str(<<"QA">>), Str(<<"ghost">>), EmptyString, Str(<<"constructor">>)}
OptEnvNameArgs == EnvNameArgs \cup {Undefined}
PathKeyArgs == {Str(<<"login">>), Str(<<"nowhere">>)}
K_ghostKey == Str(<<"n","o","b","o","d","y">>)
CredentialKeyArgs == {K_RBCClient, K_ghostKey}

SetCaching ==
    \E enabled \in BOOLEAN :
        /\ Commit(setCaching(Statics, enabled))
        /\ Record("setCaching", [enabled |-> enabled], Return(Undefined), setCachingLog(enabled))
        /\ UNCHANGED <<testConfig, processEnv>>

ClearCache ==
    /\ Commit(clearCache(Statics))
    /\ Record("clearCache", NoArgs, Return(Undefined), clearCacheLog)
    /\ UNCHANGED <<testConfig, processEnv>>

GetEnvironmentName ==
    /\ Record("getEnvironmentName", NoArgs, Return(getEnvironmentName(Statics)),
              getEnvironmentNameLog(Statics))
    /\ UNCHANGED <<testConfig, processEnv, cache, cacheEnabled, currentEnvironment, lastClear>>

SetEnvironment ==
    \E envName \in EnvNameArgs :
        LET r == setEnvironment(Statics, envName)
        IN  /\ Commit(r.m)
            /\ Record("setEnvironment", [envName |-> envName], r.res, setEnvironmentLog(envName))
            /\ UNCHANGED <<testConfig, processEnv>>

GetEnvironmentConfig ==
    \E envName \in OptEnvNameArgs :
        LET r == getEnvironmentConfig(Statics, envName)
        IN  /\ Commit(r.m)
            /\ Record("getEnvironmentConfig", [envName |-> envName], r.res,
                      getEnvironmentConfigLog(Statics, envName))
            /\ UNCHANGED <<testConfig, processEnv>>

GetBaseUrlOf(envNames) ==
    \E envName \in envNames :
        LET r == getBaseUrl(Statics, envName)
        IN  /\ Commit(r.m)
            /\ Record("getBaseUrl", [envName |-> envName], r.res, getBaseUrlLog(Statics, envName))
            /\ UNCHANGED <<testConfig, processEnv>>

GetDomainPathOf(pathKeys, envNames) ==
    \E pathKey \in pathKeys, envName \in envNames :
        LET r == getDomainPath(Statics, pathKey, envName)
        IN  /\ Commit(r.m)
            /\ Record("getDomainPath", [pathKey |-> pathKey, envName |-> envName], r.res,
                      getEnvironmentConfigLog(Statics, envName))
            /\ UNCHANGED <<testConfig, processEnv>>

GetUrlOf(pathKeys, envNames) ==
    \E pathKey \in pathKeys, envName \in envNames :
        LET r == getUrl(Statics, pathKey, envName)
        IN  /\ Commit(r.m)
            /\ Record("getUrl", [pathKey |-> pathKey, envName |-> envName], r.res,
                      getUrlLog(Statics, pathKey, envName))
            /\ UNCHANGED <<testConfig, processEnv>>

GetCredentialsOf(credentialKeys, envNames) ==
    \E credentialKey \in credentialKeys, envName \in envNames :
        LET r == getCredentials(Statics, credentialKey, envName)
        IN  /\ Commit(r.m)
            /\ Record("getCredentials", [credentialKey |-> credentialKey, envName |-> envName], r.res,
                      getCredentialsLog(Statics, credentialKey, envName))
            /\ UNCHANGED <<testConfig, processEnv>>

GetBaseUrl == GetBaseUrlOf(OptEnvNameArgs)

GetDomainPath == GetDomainPathOf(PathKeyArgs, OptEnvNameArgs)

GetCredentials == GetCredentialsOf(CredentialKeyArgs, OptEnvNameArgs)

ValidateConfig ==
    /\ Record("validateConfig", NoArgs, validateConfig, validateConfigLog)
    /\ UNCHANGED <<testConfig, processEnv, cache, cacheEnabled, currentEnvironment, lastClear>>

\* process.env[name] = value, or delete process.env[name] when value is Undefined
WriteEnv(name, value) ==
    /\ processEnv' = IF value = Undefined
                     THEN [n \in DOMAIN processEnv \ {name} |-> processEnv[n]]
                     ELSE (name :> value) @@ processEnv
    /\ processEnv' # processEnv
    /\ Record("processEnv", [name |-> name, value |-> value], Return(Undefined), << >>)
    /\ UNCHANGED <<testConfig, cache, cacheEnabled, currentEnvironment, lastClear>>

OverrideUrl == Str(<<"http:", "/", "/", "override.test", "/">>)

SetTestEnv == \E v \in {Str(<<"local">>), Str(<<"ghost">>), EmptyString, Undefined} : WriteEnv(TEST_ENV, v)

SetBaseUrlVar == \E v \in {OverrideUrl, EmptyString, Undefined} : WriteEnv(BASE_URL, v)

LocalOnlyConfig ==
    [environments |-> [entries |-> << Entry(Str(<<"local">>), LocalEnvironment) >>]]

InitStatics ==
    /\ processEnv = << >>
    /\ cache = EmptyMap
    /\ cacheEnabled = TRUE
    /\ currentEnvironment = Null
    /\ lastClear = [before |-> Null, after |-> Null]
    /\ last = [op |-> "load", args |-> NoArgs, res |-> Return(Undefined), before |-> Before,
               log |-> << >>]
    /\ retryFrame = NoRetry
    /\ dataProvider = DataProviderLoaded

Init ==
    /\ testConfig \in {ShippedConfig, LocalOnlyConfig}
    /\ InitStatics

Next ==
    \/ SetCaching
    \/ ClearCache
    \/ GetEnvironmentName
    \/ SetEnvironment
    \/ GetEnvironmentConfig
    \/ GetBaseUrl
    \/ GetDomainPath
    \/ GetCredentials
    \/ ValidateConfig
    \/ SetTestEnv
    \/ SetBaseUrlVar

Spec == Init /\ [][Next]_vars

(* URL resolution (SpecUrl): one environment QA whose base URL comes from  *)
(* urlConfig, from the legacy baseUrl (ending in 0..MaxSlashes slashes),   *)
(* from both or from neither, with paths that start with 0, 1 and          *)
(* MaxSlashes slashes and an empty path.                                   *)

MaxSlashes == 2

Slashes(n) == [i \in 1..n |-> "/"]

UrlPaths ==
    [entries |-> << Entry(Str(<<"site">>), Str(<<"QA">>)),
                    Entry(Str(<<"login">>), Str(<<"/", "go.aspx">>)),
                    Entry(Str(<<"home">>), Str(Slashes(MaxSlashes) \o <<"home">>)),
                    Entry(Str(<<"logout">>), EmptyString) >>]

UrlEnvironment(baseUrl) ==
    [name |-> Str(<<"QA">>), baseUrl |-> baseUrl, domainPaths |-> UrlPaths,
     credentials |-> OneCredential]

UrlEnvironments ==
    {UrlEnvironment(Str(<<"http:", "/", "/", "localhost:3000">> \o Slashes(n))) : n \in 0..MaxSlashes}
    \cup {UrlEnvironment(EmptyString),
          UrlEnvironment(EmptyString) @@ [urlConfig |-> FullUrlConfig],
          UrlEnvironment(LegacyUrl) @@ [urlConfig |-> FullUrlConfig]}

UrlTables == {[environments |-> Obj1(Str(<<"QA">>), e)] : e \in UrlEnvironments}

UrlEnvNameArgs == {Str(<<"QA">>), Str(<<"ghost">>), Undefined}
UrlPathKeyArgs == {Str(<<"site">>), Str(<<"login">>), Str(<<"home">>), Str(<<"logout">>), Str(<<"nowhere">>)}

GetBaseUrlForUrl == GetBaseUrlOf(UrlEnvNameArgs)

GetDomainPathForUrl == GetDomainPathOf(UrlPathKeyArgs, UrlEnvNameArgs)

GetUrl == GetUrlOf(UrlPathKeyArgs, UrlEnvNameArgs)

BuildBaseUrl ==
    \E urlConfig \in {FullUrlConfig, ProdEnvironment.urlConfig},
       envPrefixOverride \in {Undefined, EmptyString, Str(<<"qa9">>)} :
        /\ Record("buildBaseUrl", [urlConfig |-> urlConfig, envPrefixOverride |-> envPrefixOverride],
                  Return(buildBaseUrl(urlConfig, envPrefixOverride)),
                  buildBaseUrlLog(urlConfig, envPrefixOverride))
        /\ UNCHANGED <<testConfig, processEnv, cache, cacheEnabled, currentEnvironment, lastClear>>

SetEnvPrefix == \E v \in {Str(<<"qa1">>), EmptyString, Undefined} : WriteEnv(ENV_PREFIX, v)

SetSubdomain == \E v \in {Str(<<"otherhighway">>), Undefined} : WriteEnv(SUBDOMAIN, v)

InitUrl ==
    /\ testConfig \in UrlTables
    /\ InitStatics

NextUrl ==
    \/ GetBaseUrlForUrl
    \/ GetDomainPathForUrl
    \/ GetUrl
    \/ BuildBaseUrl
    \/ SetBaseUrlVar
    \/ SetEnvPrefix
    \/ SetSubdomain

SpecUrl == InitUrl /\ [][NextUrl]_vars

(* Credential overrides (SpecCredentials): the QA environment with the    *)
(* shipped RBCClient and TDFClient pairs and two keys that hold characters *)
(* outside A-Z and 0-9; process.env variables named by the derived prefix  *)
(* and variables named otherwise.                                          *)

K_test_dash_user == Str(<<"t","e","s","t","-","u","s","e","r">>)
K_test_underscore_user == Str(<<"t","e","s","t","_","u","s","e","r">>)

CredentialsEnvironment ==
    [name |-> Str(<<"QA">>), baseUrl |-> EmptyString, urlConfig |-> FullUrlConfig,
     domainPaths |-> OnePath,
     credentials |-> [entries |-> <<
        Entry(K_RBCClient, Cred(Str(<<"MIJIRBC">>), Str(<<"Assetuse@1">>))),
        Entry(K_TDFClient, Cred(Str(<<"MIJITDF">>), Str(<<"Assetuse@2">>))),
        Entry(K_test_dash_user, Cred(Str(<<"dash@example.com">>), Str(<<"Dash123!">>))),
        Entry(K_test_underscore_user, Cred(Str(<<"underscore@example.com">>), Str(<<"Underscore123!">>))) >>]]

CredentialsTable == [environments |-> Obj1(Str(<<"QA">>), CredentialsEnvironment)]

\* names of process.env variables, one character per piece
RBCCLIENT_USERNAME ==
    Str(<<"R","B","C","C","L","I","E","N","T","_","U","S","E","R","N","A","M","E">>)
RBCCLIENT_PASSWORD ==
    Str(<<"R","B","C","C","L","I","E","N","T","_","P","A","S","S","W","O","R","D">>)
TEST_USER_USERNAME ==
    Str(<<"T","E","S","T","_","U","S","E","R","_","U","S","E","R","N","A","M","E">>)
\* the raw key followed by _USERNAME
RBCClient_USERNAME ==
    Str(<<"R","B","C","C","l","i","e","n","t","_","U","S","E","R","N","A","M","E">>)
\* the variable the quick start guide sets, for the key 'RBCClientUser'
RBCCLIENTUSER_USERNAME ==
    Str(<<"R","B","C","C","L","I","E","N","T","U","S","E","R","_","U","S","E","R","N","A","M","E">>)

CredentialsEnvNameArgs == {Str(<<"QA">>), Undefined}
CredentialsKeyArgs == {K_RBCClient, K_TDFClient, K_test_dash_user, K_test_underscore_user, K_ghostKey}

GetCredentialsForOverrides == GetCredentialsOf(CredentialsKeyArgs, CredentialsEnvNameArgs)

SetUsernameOverride ==
    \E name \in {RBCCLIENT_USERNAME, TEST_USER_USERNAME},
       v \in {Str(<<"custom_user">>), EmptyString, Undefined} : WriteEnv(name, v)

SetPasswordOverride ==
    \E v \in {Str(<<"custom_pass">>), EmptyString, Undefined} : WriteEnv(RBCCLIENT_PASSWORD, v)

SetOtherVariable ==
    \E name \in {RBCClient_USERNAME, RBCCLIENTUSER_USERNAME},
       v \in {Str(<<"other_user">>), Undefined} : WriteEnv(name, v)

InitCredentials ==
    /\ testConfig = CredentialsTable
    /\ InitStatics

NextCredentials ==
    \/ GetCredentialsForOverrides
    \/ SetUsernameOverride
    \/ SetPasswordOverride
    \/ SetOtherVariable

SpecCredentials == InitCredentials /\ [][NextCredentials]_vars

(* Tables for validateConfig: every sequence of at most MaxEnvs distinct    *)
(* environment definitions of a pool, one definition per rule the method   *)
(* checks or the data model states, and the shipped table.                 *)

MaxEnvs == 2


Legacy ==
    [name |-> Str(<<"Legacy">>), baseUrl |-> LegacyUrl,
     domainPaths |-> OnePath, credentials |-> OneCredential]

EnvironmentPool ==
    << \* well-formed definitions
       Entry(Str(<<"legacy">>), Legacy),
       Entry(Str(<<"built">>), [Legacy EXCEPT !.baseUrl = EmptyString] @@ [urlConfig |-> FullUrlConfig]),
       Entry(Str(<<"both">>), Legacy @@ [urlConfig |-> FullUrlConfig]),
       Entry(Str(<<"unlabelled">>), [Legacy EXCEPT !.name = EmptyString]),
       \* definitions that break one rule of the data model
       Entry(Str(<<"noUrl">>), [Legacy EXCEPT !.baseUrl = EmptyString]),
       Entry(Str(<<"badUrlConfig">>),
             Legacy @@ [urlConfig |-> [FullUrlConfig EXCEPT !.domain = EmptyString]]),
       Entry(Str(<<"noPaths">>), [Legacy EXCEPT !.domainPaths = EmptyObject]),
       Entry(Str(<<"pathsMissing">>),
             [name |-> Str(<<"Legacy">>), baseUrl |-> LegacyUrl, credentials |-> OneCredential]),
       Entry(Str(<<"noCredentials">>), [Legacy EXCEPT !.credentials = EmptyObject]),
       Entry(Str(<<"halfCredential">>),
             [Legacy EXCEPT !.credentials =
                 [entries |-> << Entry(K_admin, Cred(Str(<<"admin@localhost">>), Str(<<"local123">>))),
                                 Entry(K_testUser1, Cred(Str(<<"test@localhost">>), EmptyString)),
                                 Entry(K_testUser2, Cred(EmptyString, Str(<<"user123">>))) >>]]),
       \* definitions that break two
       Entry(Str(<<"noPathsNoCredentials">>),
             [Legacy EXCEPT !.domainPaths = EmptyObject, !.credentials = EmptyObject]),
       Entry(Str(<<"builtNoCredentials">>),
             [Legacy EXCEPT !.baseUrl = EmptyString, !.credentials = EmptyObject]
                 @@ [urlConfig |-> FullUrlConfig]) >>

Injective(seq) == \A i, j \in DOMAIN seq : seq[i] = seq[j] => i = j

ValidateTables ==
    {ShippedConfig} \cup
    { [environments |-> [entries |-> [i \in DOMAIN picks |-> EnvironmentPool[picks[i]]]]] :
        picks \in {q \in UNION {[1..n -> DOMAIN EnvironmentPool] : n \in 0..MaxEnvs} : Injective(q)} }

InitValidate ==
    /\ testConfig \in ValidateTables
    /\ InitStatics

NextValidate == ValidateConfig

SpecValidate == InitValidate /\ [][NextValidate]_vars

(* The data model's invariant, as the specification states it *)

NonEmptyString(v) == v # Undefined /\ v # EmptyString

HasPaths(config) ==
    Field(config, "domainPaths") # Undefined /\ Len(config.domainPaths.entries) > 0

HasCredentials(config) ==
    Field(config, "credentials") # Undefined /\ Len(config.credentials.entries) > 0

CompletePair(cred) ==
    NonEmptyString(Field(cred, "username")) /\ NonEmptyString(Field(cred, "password"))

CompleteCredentials(config) ==
    Field(config, "credentials") # Undefined
        => \A i \in DOMAIN config.credentials.entries : CompletePair(config.credentials.entries[i].v)

HasBaseUrlSource(config) ==
    IF Field(config, "urlConfig") # Undefined
    THEN \A f \in {"protocol", "envPrefix", "subdomain", "domain"} :
            NonEmptyString(Field(config.urlConfig, f))
    ELSE NonEmptyString(Field(config, "baseUrl"))

WellFormed(config) ==
    /\ HasPaths(config)
    /\ HasCredentials(config)
    /\ CompleteCredentials(config)
    /\ HasBaseUrlSource(config)

Environments == testConfig.environments.entries

WellFormedTable == \A i \in DOMAIN Environments : WellFormed(Environments[i].v)

(* Properties of validateConfig (SpecValidate)                             *)

\* C5: validateConfig() returns true for every table (of at least one
\* environment, each with a display name) in which each environment
\* satisfies the data model's invariant, also when an environment has
\* urlConfig and an empty legacy baseUrl, as dev, QA and prod of the shipped
\* table have.
ValidateAcceptsWellFormed ==
    (/\ last.op = "validateConfig"
     /\ Len(Environments) > 0
     /\ \A i \in DOMAIN Environments : NonEmptyString(Field(Environments[i].v, "name"))
     /\ WellFormedTable)
        => last.res = Return(TRUE)

\* The first environment, in table order, that breaks the invariant.
FirstOffender ==
    CHOOSE i \in DOMAIN Environments :
        /\ ~WellFormed(Environments[i].v)
        /\ \A j \in 1..(i - 1) : WellFormed(Environments[j].v)

FirstIncompleteKey(config) ==
    LET e == config.credentials.entries
    IN  e[CHOOSE i \in DOMAIN e :
            ~CompletePair(e[i].v) /\ \A j \in 1..(i - 1) : CompletePair(e[j].v)].k

ValidationErrors == {"MissingField", "EmptyPathSet", "EmptyCredentialSet", "IncompleteCredentialPair"}

\* C6: for a table in which some environment breaks the invariant,
\* validateConfig() does not return true: it raises a validation error that
\* names the first offending environment of the table (and, for an
\* incomplete pair, the credential key), and the error is
\* EmptyCredentialSet when that environment's only fault is an empty
\* credential set.
ValidateRejectsFirstOffender ==
    (last.op = "validateConfig" /\ ~WellFormedTable) =>
        LET offender == Environments[FirstOffender]
        IN  /\ last.res.kind \in ValidationErrors
            /\ last.res.info.env = offender.k
            /\ last.res.kind = "IncompleteCredentialPair"
                  => last.res.info.key = FirstIncompleteKey(offender.v)
            /\ (/\ HasPaths(offender.v)
                /\ HasBaseUrlSource(offender.v)
                /\ Field(offender.v, "credentials") # Undefined
                /\ ~HasCredentials(offender.v))
                  => last.res.kind = "EmptyCredentialSet"

(* Properties of the active-environment selector and the cache (Spec)      *)

IsCall(op) == last.op = op

Succeeded(op) == last.op = op /\ last.res.kind = "ok"

\* C1: after setEnvironment(name) succeeds for a name that is in the table,
\* getEnvironmentName() returns name and getEnvironmentConfig() without a
\* name returns the table entry of name, whatever TEST_ENV holds.
SetEnvironmentSelects ==
    (Succeeded("setEnvironment") /\ HasOwn(testConfig.environments, last.args.envName))
        => /\ getEnvironmentName(Statics) = last.args.envName
           /\ getEnvironmentConfig(Statics, Undefined).res
                  = Return(Prop(testConfig.environments, last.args.envName))

\* C2: clearCache() removes every cache entry and leaves an explicitly set
\* active environment name (a name of the table) as it was.
ClearCacheKeepsEnvironment ==
    /\ IsCall("clearCache") => DOMAIN cache = {}
    /\ (lastClear.before # Null /\ HasOwn(testConfig.environments, lastClear.before))
          => lastClear.after = lastClear.before

\* C3: immediately after a successful setEnvironment(name) the cache holds
\* no entry, also when name is the name that was active before the call.
SetEnvironmentEmptiesCache ==
    Succeeded("setEnvironment") => DOMAIN cache = {}

\* a successful setEnvironment of the name that was already active, made
\* while the cache held an entry
SetEnvironmentEmptiedCache ==
    /\ Succeeded("setEnvironment")
    /\ DOMAIN last.before.cache # {}
    /\ last.args.envName = Or(last.before.currentEnvironment, Or(EnvVar(TEST_ENV), Str(<<"QA">>)))
    /\ HasOwn(testConfig.environments, last.args.envName)

Lookups == {"getEnvironmentConfig", "getBaseUrl", "getDomainPath", "getCredentials"}

UnknownEnvironmentError(envName) ==
    Throw("UnknownEnvironment", [env |-> envName, available |-> OwnKeys(testConfig.environments)])

\* A name given to a lookup that the table object does not know: a
\* non-empty string that is neither a key of the table nor a property the
\* table object inherits.  ('' counts as an omitted name, line 73.)
CalledWithUnknownName ==
    /\ last.op \in Lookups
    /\ last.args.envName # Undefined
    /\ last.args.envName # EmptyString
    /\ ~In(last.args.envName, testConfig.environments)

ResolvedName == Or(last.args.envName, getEnvironmentName(Statics))

ResolvesKnown == HasOwn(testConfig.environments, ResolvedName)

ResolvedConfig == Prop(testConfig.environments, ResolvedName)

BaseUrlOverrideSet == NonEmptyString(EnvVar(BASE_URL))

\* C7: getBaseUrl(name) applies a strict precedence, first match wins:
\* (1) BASE_URL, when set (to a non-empty value), is returned verbatim and
\* urlConfig is ignored; (2) else, when the resolved environment has
\* urlConfig, the result is buildBaseUrl(urlConfig); (3) else a non-empty
\* legacy baseUrl is returned; (4) else the call raises MissingBaseUrl
\* naming the environment.
BaseUrlPrecedence ==
    last.op = "getBaseUrl" =>
        IF BaseUrlOverrideSet
        THEN last.res = Return(EnvVar(BASE_URL))
        ELSE ResolvesKnown =>
            IF Field(ResolvedConfig, "urlConfig") # Undefined
            THEN last.res = Return(buildBaseUrl(ResolvedConfig.urlConfig, Undefined))
            ELSE IF NonEmptyString(Field(ResolvedConfig, "baseUrl"))
            THEN last.res = Return(ResolvedConfig.baseUrl)
            ELSE last.res = Throw("MissingBaseUrl", [env |-> ResolvedConfig.name])

\* BASE_URL wins over the urlConfig and the legacy baseUrl of an
\* environment that has both
BaseUrlOverrideBeatsUrlConfig ==
    /\ last.op = "getBaseUrl"
    /\ BaseUrlOverrideSet
    /\ ResolvesKnown
    /\ Field(ResolvedConfig, "urlConfig") # Undefined
    /\ NonEmptyString(Field(ResolvedConfig, "baseUrl"))
    /\ last.res = Return(EnvVar(BASE_URL))

RECURSIVE DropLeadingSlashes(_)
DropLeadingSlashes(pieces) ==
    IF Len(pieces) > 0 /\ Head(pieces) = "/" THEN DropLeadingSlashes(Tail(pieces)) ELSE pieces

WithoutOneTrailingSlash(s) ==
    IF Len(s.str) > 0 /\ s.str[Len(s.str)] = "/" THEN Str(SubSeq(s.str, 1, Len(s.str) - 1)) ELSE s

WithExactlyOneLeadingSlash(s) == Str(<<"/">> \o DropLeadingSlashes(s.str))

WithLeadingSlash(s) ==
    IF Len(s.str) > 0 /\ Head(s.str) = "/" THEN s ELSE Str(<<"/">> \o s.str)

\* what getBaseUrl and getDomainPath return for the arguments of the latest getUrl
BaseUrlOfCall == getBaseUrl(Statics, last.args.envName).res
PathOfCall == getDomainPath(Statics, last.args.pathKey, last.args.envName).res

\* C10 as stated: getUrl(pathKey, env) is getBaseUrl(env) without one
\* trailing slash, followed by getDomainPath(pathKey, env) coerced to start
\* with exactly one slash, for paths with no, one or several leading
\* slashes.
UrlJoinExactlyOneSlash ==
    Succeeded("getUrl") =>
        /\ BaseUrlOfCall.kind = "ok" /\ PathOfCall.kind = "ok"
        /\ last.res.val = WithoutOneTrailingSlash(BaseUrlOfCall.val)
                              ++ WithExactlyOneLeadingSlash(PathOfCall.val)

\* C10 amended: getUrl(pathKey, env) is getBaseUrl(env) without one
\* trailing slash, followed by getDomainPath(pathKey, env), which gets a
\* slash in front when it does not start with one and is left as it is
\* otherwise; several leading slashes stay.
UrlJoinEnsuresLeadingSlash ==
    Succeeded("getUrl") =>
        /\ BaseUrlOfCall.kind = "ok" /\ PathOfCall.kind = "ok"
        /\ last.res.val = WithoutOneTrailingSlash(BaseUrlOfCall.val)
                              ++ WithLeadingSlash(PathOfCall.val)

\* a base URL that ends in a slash is joined with a path that starts with
\* several
UrlJoinedSlashToSlashes ==
    /\ Succeeded("getUrl")
    /\ BaseUrlOfCall.val.str[Len(BaseUrlOfCall.val.str)] = "/"
    /\ Len(PathOfCall.val.str) - Len(DropLeadingSlashes(PathOfCall.val.str)) > 1

(* Properties of credential overrides (SpecCredentials)                    *)

TablePair == Prop(Field(ResolvedConfig, "credentials"), last.args.credentialKey)

KnownCredentialCall ==
    /\ Succeeded("getCredentials")
    /\ ResolvesKnown
    /\ HasOwn(ResolvedConfig.credentials, last.args.credentialKey)

OverrideOr(name, tableValue) ==
    IF NonEmptyString(EnvVar(name)) THEN EnvVar(name) ELSE tableValue

\* C8: getCredentials(key, env) merges the overrides field by field:
\* username is the username override when that variable is set (non-empty)
\* and the table username otherwise, password likewise, each decided
\* independently; with no override set the pair is the table pair.
CredentialsMergedPerField ==
    KnownCredentialCall =>
        LET prefix == envKeyPrefixOf(last.args.credentialKey)
            u == EnvVar(prefix ++ USERNAME_SUFFIX)
            p == EnvVar(prefix ++ PASSWORD_SUFFIX)
        IN  /\ last.res.val.username = (IF NonEmptyString(u) THEN u ELSE TablePair.username)
            /\ last.res.val.password = (IF NonEmptyString(p) THEN p ELSE TablePair.password)
            /\ (u = Undefined /\ p = Undefined) => last.res.val = TablePair

\* only the username of RBCClient is overridden
UsernameAloneOverridden ==
    /\ KnownCredentialCall
    /\ last.args.credentialKey = K_RBCClient
    /\ NonEmptyString(EnvVar(RBCCLIENT_USERNAME))
    /\ ~NonEmptyString(EnvVar(RBCCLIENT_PASSWORD))
    /\ last.res.val = Cred(EnvVar(RBCCLIENT_USERNAME), Str(<<"Assetuse@1">>))

\* The prefix the specification derives for each key of the table: the key
\* in upper case with every character outside A-Z and 0-9 replaced by "_".
DerivedPrefix(credentialKey) ==
    CASE credentialKey = K_RBCClient -> Str(<<"R","B","C","C","L","I","E","N","T">>)
      [] credentialKey = K_TDFClient -> Str(<<"T","D","F","C","L","I","E","N","T">>)
      [] credentialKey = K_test_dash_user -> Str(<<"T","E","S","T","_","U","S","E","R">>)
      [] credentialKey = K_test_underscore_user -> Str(<<"T","E","S","T","_","U","S","E","R">>)

\* C9: the only variables getCredentials(key, env) consults are
\* <P>_USERNAME and <P>_PASSWORD for the derived prefix P ('RBCClient' gives
\* 'RBCCLIENT'): the pair it returns is determined by the table pair and
\* those two variables, whatever any variable of another name holds.
OnlyDerivedSlotsConsulted ==
    KnownCredentialCall =>
        LET prefix == DerivedPrefix(last.args.credentialKey)
        IN  last.res.val =
                Cred(OverrideOr(prefix ++ USERNAME_SUFFIX, TablePair.username),
                     OverrideOr(prefix ++ PASSWORD_SUFFIX, TablePair.password))

\* variables named after the raw key and after a longer key are set, the
\* derived ones are not, and the table pair comes back
OtherSlotsIgnored ==
    /\ KnownCredentialCall
    /\ last.args.credentialKey = K_RBCClient
    /\ NonEmptyString(EnvVar(RBCClient_USERNAME))
    /\ NonEmptyString(EnvVar(RBCCLIENTUSER_USERNAME))
    /\ EnvVar(RBCCLIENT_USERNAME) = Undefined
    /\ last.res.val = Cred(Str(<<"MIJIRBC">>), Str(<<"Assetuse@1">>))

(* Further properties of the active-environment selector (Spec)            *)

\* What getEnvironmentName() falls back to when no name is set explicitly.
FallbackName == IF NonEmptyString(EnvVar(TEST_ENV)) THEN EnvVar(TEST_ENV) ELSE Str(<<"QA">>)

\* C11: getEnvironmentName() raises no error in any state, also when the
\* name it returns is not in the table; called after a successful
\* setEnvironment(name) it returns name, the explicitly set name; and while
\* no name is stored it returns TEST_ENV when that is set (non-empty) and
\* 'QA' otherwise.
ActiveNamePrecedence ==
    /\ [](IsCall("getEnvironmentName") =>
            /\ last.res.kind = "ok"
            /\ last.res.val = IF last.before.currentEnvironment # Null
                              THEN last.before.currentEnvironment
                              ELSE FallbackName)
    /\ [][ (/\ Succeeded("setEnvironment")
            /\ HasOwn(testConfig.environments, last.args.envName)
            /\ last'.op = "getEnvironmentName")
              => last'.res = Return(last.args.envName) ]_vars

(* Properties of the cache (Spec)                                          *)

\* The cache key of the name the latest lookup resolved.
CacheKeyOfCall == cacheKeyOf(ResolvedName)

\* The latest step ran clearCache(): directly, through a successful
\* setEnvironment or through setCaching(false).
Invalidated ==
    \/ IsCall("clearCache")
    \/ Succeeded("setEnvironment")
    \/ (IsCall("setCaching") /\ ~last.args.enabled)

\* C12: while caching is enabled, a successful getEnvironmentConfig(e)
\* leaves a cache entry for e that holds the value it returned; a call that
\* finds an entry for e returns that entry; and an entry stays as it is
\* until setEnvironment, clearCache or setCaching(false) runs.  So two calls
\* with none of these in between return the same value.
RepeatedResolutionStable ==
    /\ []((Succeeded("getEnvironmentConfig") /\ cacheEnabled)
            => /\ CacheKeyOfCall \in DOMAIN cache
               /\ cache[CacheKeyOfCall] = last.res.val)
    /\ []((/\ IsCall("getEnvironmentConfig")
           /\ last.before.cacheEnabled
           /\ CacheKeyOfCall \in DOMAIN last.before.cache)
            => last.res = Return(last.before.cache[CacheKeyOfCall]))
    /\ [][ ~Invalidated' =>
              \A k \in DOMAIN cache : k \in DOMAIN cache' /\ cache'[k] = cache[k] ]_vars

\* getEnvironmentConfig('QA') answered from the entry an earlier call left
ResolvedFromCache ==
    /\ Succeeded("getEnvironmentConfig")
    /\ last.args.envName = Str(<<"QA">>)
    /\ last.before.cacheEnabled
    /\ CacheKeyOfCall \in DOMAIN last.before.cache
    /\ last.res = Return(QAEnvironment)
    /\ cache = last.before.cache

\* C13: setCaching(false) empties the cache, and in every state in which
\* caching is disabled the cache is empty: no lookup stores an entry while
\* caching is disabled.
DisabledCacheEmpty ==
    /\ (IsCall("setCaching") /\ ~last.args.enabled) => DOMAIN cache = {}
    /\ ~cacheEnabled => DOMAIN cache = {}

\* caching is switched off while the cache holds an entry
CachingDisabledOnFilledCache ==
    /\ IsCall("setCaching")
    /\ ~last.args.enabled
    /\ DOMAIN last.before.cache # {}
    /\ ~cacheEnabled
    /\ DOMAIN cache = {}

(* Properties of the errors (Spec)                                         *)

\* Every key of obj is among the names an error message lists.
ListsAllKeys(available, obj) ==
    \A i \in DOMAIN obj.entries : obj.entries[i].k \in Range(available)

\* C14: setEnvironment(name) for a name that is not an environment name of
\* the table raises UnknownEnvironment, and the error lists every
\* environment name of the table.
SetEnvironmentRejectsUnknown ==
    (IsCall("setEnvironment") /\ ~HasOwn(testConfig.environments, last.args.envName))
        => /\ last.res.kind = "UnknownEnvironment"
           /\ last.res.info.env = last.args.envName
           /\ ListsAllKeys(last.res.info.available, testConfig.environments)

(* Properties of the path lookup (SpecUrl)                                 *)

\* C15: for a known environment e, getDomainPath(pathKey, e) returns
\* domainPaths[pathKey] when pathKey is a key of e's paths, and raises
\* UnknownPath, listing all path keys of e, exactly when pathKey is no key
\* of e's paths.
PathReturnedIffPresent ==
    (IsCall("getDomainPath") /\ ResolvesKnown) =>
        LET paths == ResolvedConfig.domainPaths
        IN  IF HasOwn(paths, last.args.pathKey)
            THEN last.res = Return(Prop(paths, last.args.pathKey))
            ELSE /\ last.res.kind = "UnknownPath"
                 /\ last.res.info.key = last.args.pathKey
                 /\ ListsAllKeys(last.res.info.available, paths)

(* Credential keys the table lacks (SpecMissingKey): the QA environment of *)
(* SpecCredentials, asked for a key it has, a key it lacks and a key it     *)
(* lacks that every object inherits, while the override variables of the   *)
(* two missing keys are set and unset.                                     *)

K_constructor == Str(<<"c","o","n","s","t","r","u","c","t","o","r">>)

MissingKeyOverrideNames ==
    {Str(<<"N","O","B","O","D","Y","_","U","S","E","R","N","A","M","E">>),
     Str(<<"N","O","B","O","D","Y","_","P","A","S","S","W","O","R","D">>),
     Str(<<"C","O","N","S","T","R","U","C","T","O","R","_","U","S","E","R","N","A","M","E">>),
     Str(<<"C","O","N","S","T","R","U","C","T","O","R","_","P","A","S","S","W","O","R","D">>)}

GetCredentialsForMissingKey ==
    GetCredentialsOf({K_RBCClient, K_ghostKey, K_constructor}, CredentialsEnvNameArgs)

SetMissingKeyOverride ==
    \E name \in MissingKeyOverrideNames, v \in {Str(<<"custom">>), Undefined} : WriteEnv(name, v)

NextMissingKey ==
    \/ GetCredentialsForMissingKey
    \/ SetMissingKeyOverride

SpecMissingKey == InitCredentials /\ [][NextMissingKey]_vars

\* C16: for a known environment e, getCredentials(credentialKey, e) raises
\* UnknownCredential, listing all credential keys of e, when credentialKey
\* is no key of e's credentials, whatever the override variables of its
\* derived prefix hold: overrides create no pair for a key the table lacks.
MissingKeyRefused ==
    (/\ IsCall("getCredentials")
     /\ ResolvesKnown
     /\ ~HasOwn(ResolvedConfig.credentials, last.args.credentialKey))
        => /\ last.res.kind = "UnknownCredential"
           /\ last.res.info.key = last.args.credentialKey
           /\ ListsAllKeys(last.res.info.available, ResolvedConfig.credentials)

(* Properties of URL construction (SpecUrl)                                *)

\* The first of the values that is present (a non-empty string).
FirstPresent(values) ==
    values[CHOOSE i \in DOMAIN values :
              NonEmptyString(values[i]) /\ \A j \in 1..(i - 1) : ~NonEmptyString(values[j])]

\* C17: buildBaseUrl(urlConfig, envPrefixOverride) returns
\* protocol + '://' + prefix + subdomain + '.' + domain, where prefix is the
\* first present of envPrefixOverride, ENV_PREFIX and urlConfig.envPrefix,
\* subdomain is SUBDOMAIN when present and urlConfig.subdomain otherwise,
\* and protocol and domain come from urlConfig; so getUrl('login', 'QA') is
\* 'https://qa2repohighway.devservices.dh.com/go.aspx' for the QA
\* environment of the shipped table when no override is set.
BuildBaseUrlFormat ==
    /\ IsCall("buildBaseUrl") =>
          LET u == last.args.urlConfig
              prefix == FirstPresent(<<last.args.envPrefixOverride, EnvVar(ENV_PREFIX), u.envPrefix>>)
              subdomain == FirstPresent(<<EnvVar(SUBDOMAIN), u.subdomain>>)
          IN  last.res = Return(Str(u.protocol.str \o <<":", "/", "/">> \o prefix.str
                                        \o subdomain.str \o <<".">> \o u.domain.str))
    /\ (/\ IsCall("getUrl")
        /\ last.args.pathKey = Str(<<"login">>)
        /\ ResolvesKnown
        /\ Field(ResolvedConfig, "urlConfig") = QAEnvironment.urlConfig
        /\ DOMAIN processEnv = {})
          => last.res = Return(Str(<<"https", ":", "/", "/", "qa2", "repohighway", ".",
                                     "devservices.dh.com", "/", "go.aspx">>))

\* the argument beats ENV_PREFIX, and SUBDOMAIN replaces the subdomain
PrefixArgumentBeatsEnvPrefix ==
    /\ IsCall("buildBaseUrl")
    /\ last.args.envPrefixOverride = Str(<<"qa9">>)
    /\ EnvVar(ENV_PREFIX) = Str(<<"qa1">>)
    /\ EnvVar(SUBDOMAIN) = Str(<<"otherhighway">>)
    /\ last.res = Return(Str(<<"https", ":", "/", "/", "qa9", "otherhighway", ".", "dh.com">>))

(* Overrides that change between calls (SpecOverrides): the QA environment *)
(* of SpecCredentials, whose base URL is built from urlConfig; each of the  *)
(* override variables is set, changed and unset between calls of           *)
(* getBaseUrl and getCredentials, with caching enabled and disabled.       *)

OverrideNames == {BASE_URL, ENV_PREFIX, SUBDOMAIN, RBCCLIENT_USERNAME, RBCCLIENT_PASSWORD}

ChangeOverride ==
    \E name \in OverrideNames, v \in {Str(<<"changed">>), Undefined} : WriteEnv(name, v)

GetBaseUrlForOverrides == GetBaseUrlOf(CredentialsEnvNameArgs)

GetCredentialsForSlots == GetCredentialsOf({K_RBCClient}, CredentialsEnvNameArgs)

NextOverrides ==
    \/ GetBaseUrlForOverrides
    \/ GetCredentialsForSlots
    \/ ChangeOverride
    \/ SetCaching

SpecOverrides == InitCredentials /\ [][NextOverrides]_vars

\* The table's entry of QA, read from the table itself.
TableQA == Prop(testConfig.environments, Str(<<"QA">>))

\* C18: the override variables are read at each call and never kept: the
\* result of every getBaseUrl(e) and getCredentials(k, e) is computed from
\* the values BASE_URL, ENV_PREFIX, SUBDOMAIN and the credential overrides
\* hold at that call, whatever they held at earlier calls, also when
\* caching is enabled and e is in the cache.
OverridesReadAtEachCall ==
    /\ IsCall("getBaseUrl") =>
          last.res = Return(
              IF NonEmptyString(EnvVar(BASE_URL)) THEN EnvVar(BASE_URL)
              ELSE Str(<<"https", ":", "/", "/">>)
                     ++ FirstPresent(<<EnvVar(ENV_PREFIX), TableQA.urlConfig.envPrefix>>)
                     ++ FirstPresent(<<EnvVar(SUBDOMAIN), TableQA.urlConfig.subdomain>>)
                     ++ Str(<<".", "devservices.dh.com">>))
    /\ IsCall("getCredentials") =>
          last.res = Return(
              Cred(FirstPresent(<<EnvVar(RBCCLIENT_USERNAME), Str(<<"MIJIRBC">>)>>),
                   FirstPresent(<<EnvVar(RBCCLIENT_PASSWORD), Str(<<"Assetuse@1">>)>>)))

\* getBaseUrl answered with the changed prefix while caching is enabled and
\* QA is already in the cache
ChangedPrefixUsedDespiteCache ==
    /\ IsCall("getBaseUrl")
    /\ last.before.cacheEnabled
    /\ cacheKeyOf(Str(<<"QA">>)) \in DOMAIN last.before.cache
    /\ EnvVar(BASE_URL) = Undefined
    /\ EnvVar(ENV_PREFIX) = Str(<<"changed">>)
    /\ last.res = Return(Str(<<"https", ":", "/", "/", "changed", "repohighway", ".",
                               "devservices.dh.com">>))

(* Properties of the log (SpecCredentials)                                 *)

\* The text s occurs in the text line.
Contains(line, s) ==
    /\ Len(s.str) > 0
    /\ \E i \in 1..(Len(line.str) - Len(s.str) + 1) :
          SubSeq(line.str, i, i + Len(s.str) - 1) = s.str

EndsWith(s, suffix) ==
    /\ Len(s.str) >= Len(suffix.str)
    /\ SubSeq(s.str, Len(s.str) - Len(suffix.str) + 1, Len(s.str)) = suffix.str

\* Every password of the table and every value of a password override.
TablePasswords(config) ==
    {config.credentials.entries[j].v.password : j \in DOMAIN config.credentials.entries}

Passwords ==
    UNION {TablePasswords(Environments[i].v) : i \in DOMAIN Environments}
    \cup { processEnv[n] : n \in {v \in DOMAIN processEnv : EndsWith(v, PASSWORD_SUFFIX)} }

\* C19: no line a call logs contains a password, neither a password of the
\* table nor the value of a password override; the last line of a
\* successful getCredentials names the credential key and the username it
\* returns (table value or override).
PasswordsNeverLogged ==
    /\ \A i \in DOMAIN last.log : \A secret \in Passwords : ~Contains(last.log[i], secret)
    /\ KnownCredentialCall =>
          /\ Len(last.log) > 0
          /\ Contains(last.log[Len(last.log)], last.args.credentialKey)
          /\ Contains(last.log[Len(last.log)], last.res.val.username)

\* getCredentials('RBCClient') with both overrides set logs the overridden
\* username and the use of a password override
OverriddenPairLogged ==
    /\ KnownCredentialCall
    /\ last.args.credentialKey = K_RBCClient
    /\ last.res.val = Cred(Str(<<"custom_user">>), Str(<<"custom_pass">>))
    /\ \E i \in DOMAIN last.log : Contains(last.log[i], Str(<<"custom_user">>))
    /\ \E i \in DOMAIN last.log :
          Contains(last.log[i], Str(<<"Using password override from environment for \"">>))

(* The cache's lifecycle (Spec)                                            *)

\* C20: every step leaves the cache unchanged, or adds one entry and keeps
\* the others (a lookup that resolves a name not yet cached, while caching
\* is enabled), or empties it (setEnvironment, setCaching(false),
\* clearCache); no step removes or replaces one entry and keeps others.
CacheChangesWholesale ==
    [][ \/ cache' = cache
        \/ /\ last'.op \in Lookups
           /\ cacheEnabled
           /\ CacheKeyOfCall' \notin DOMAIN cache
           /\ DOMAIN cache' = DOMAIN cache \cup {CacheKeyOfCall'}
           /\ cache'[CacheKeyOfCall'] = ResolvedConfig'
           /\ \A k \in DOMAIN cache : cache'[k] = cache[k]
        \/ /\ Invalidated'
           /\ DOMAIN cache' = {} ]_vars

\* clearCache() empties a cache that holds several entries
SeveralEntriesCleared ==
    /\ IsCall("clearCache")
    /\ Cardinality(DOMAIN last.before.cache) > 1
    /\ DOMAIN cache = {}

(* Empty overrides (SpecEmptyOverride): the QA environment of              *)
(* SpecCredentials; each override variable is unset, set to '' and set to  *)
(* a value between the calls.                                              *)

EmptyOverrideNames ==
    {TEST_ENV, BASE_URL, ENV_PREFIX, SUBDOMAIN, RBCCLIENT_USERNAME, RBCCLIENT_PASSWORD}

SetOverrideOrEmpty ==
    \/ \E name \in EmptyOverrideNames, v \in {EmptyString, Undefined} : WriteEnv(name, v)
    \/ \E name \in {TEST_ENV, BASE_URL, RBCCLIENT_USERNAME} : WriteEnv(name, Str(<<"set">>))

NextEmptyOverride ==
    \/ GetEnvironmentName
    \/ GetBaseUrlForOverrides
    \/ BuildBaseUrl
    \/ GetCredentialsForSlots
    \/ SetOverrideOrEmpty

SpecEmptyOverride == InitCredentials /\ [][NextEmptyOverride]_vars

\* An override variable with the empty string read as absent.
Slot(name) == IF EnvVar(name) = EmptyString THEN Undefined ELSE EnvVar(name)

\* The first of the values that is not absent.
FirstSet(values) ==
    values[CHOOSE i \in DOMAIN values :
              values[i] # Undefined /\ \A j \in 1..(i - 1) : values[j] = Undefined]

\* C21: an override set to the empty string has the same effect as an
\* absent one at every call site: what getEnvironmentName (TEST_ENV),
\* getBaseUrl (BASE_URL), buildBaseUrl (ENV_PREFIX, SUBDOMAIN and the
\* argument envPrefixOverride) and getCredentials (<P>_USERNAME,
\* <P>_PASSWORD) return is what they return with every empty override
\* taken as absent.
EmptyOverrideIsAbsent ==
    /\ IsCall("getEnvironmentName") =>
          last.res = Return(FirstSet(<<Slot(TEST_ENV), Str(<<"QA">>)>>))
    /\ IsCall("buildBaseUrl") =>
          LET u == last.args.urlConfig
              argument == IF last.args.envPrefixOverride = EmptyString
                          THEN Undefined ELSE last.args.envPrefixOverride
          IN  last.res = Return(u.protocol ++ Str(<<":", "/", "/">>)
                                  ++ FirstSet(<<argument, Slot(ENV_PREFIX), u.envPrefix>>)
                                  ++ FirstSet(<<Slot(SUBDOMAIN), u.subdomain>>)
                                  ++ Str(<<".">>) ++ u.domain)
    /\ (IsCall("getBaseUrl") /\ (Slot(TEST_ENV) = Undefined \/ last.args.envName # Undefined)) =>
          last.res = Return(FirstSet(<<Slot(BASE_URL),
                                       TableQA.urlConfig.protocol ++ Str(<<":", "/", "/">>)
                                         ++ FirstSet(<<Slot(ENV_PREFIX), TableQA.urlConfig.envPrefix>>)
                                         ++ FirstSet(<<Slot(SUBDOMAIN), TableQA.urlConfig.subdomain>>)
                                         ++ Str(<<".">>) ++ TableQA.urlConfig.domain>>))
    /\ (IsCall("getCredentials") /\ (Slot(TEST_ENV) = Undefined \/ last.args.envName # Undefined)) =>
          last.res = Return(Cred(FirstSet(<<Slot(RBCCLIENT_USERNAME), Str(<<"MIJIRBC">>)>>),
                                 FirstSet(<<Slot(RBCCLIENT_PASSWORD), Str(<<"Assetuse@1">>)>>)))

\* every override variable holds '' and the calls answer from the table
AllOverridesEmpty ==
    /\ IsCall("getCredentials")
    /\ \A n \in EmptyOverrideNames : EnvVar(n) = EmptyString
    /\ last.res = Return(Cred(Str(<<"MIJIRBC">>), Str(<<"Assetuse@1">>)))
    /\ getEnvironmentName(Statics) = Str(<<"QA">>)
    /\ getBaseUrl(Statics, Undefined).res
          = Return(Str(<<"https", ":", "/", "/", "qa2", "repohighway", ".", "devservices.dh.com">>))

(* The login scenario (POM-Tests/feature-scenarios/LoginFeature.ts) and    *)
(* the login page (POM-Tests/page-objects/LoginPage.ts, BasePage.ts) over  *)
(* the shipped table.  The browser is the environment: failAt names the    *)
(* browser step that throws, "none" when every step succeeds.              *)

K_RBCClientUser == Str(<<"R","B","C","C","l","i","e","n","t","U","s","e","r">>)

\* keys.join(', ')
RECURSIVE Join(_)
Join(keys) ==
    IF Len(keys) = 0 THEN EmptyString
    ELSE IF Len(keys) = 1 THEN keys[1]
    ELSE keys[1] ++ Str(<<", ">>) ++ Join(Tail(keys))

\* `${error}` of a thrown Error
ErrorText(res) ==
    Str(<<"Error: ">>) ++
    (IF res.kind = "UnknownCredential"
     THEN Str(<<"Credentials \"">>) ++ res.info.key ++ Str(<<"\" not found for environment \"">>)
            ++ Text(res.info.env) ++ Str(<<"\". Available: ">>) ++ Join(res.info.available)
     ELSE IF res.kind = "UnknownEnvironment"
     THEN Str(<<"Environment \"">>) ++ res.info.env
            ++ Str(<<"\" not found in test.config.ts. Available: ">>) ++ Join(res.info.available)
     ELSE res.info.message)

\* `${locator}` of the page's locators
usernameInput == Str(<<"locator('#UserName, input[name=\"UserName\"], input[type=\"text\"]')">>)
passwordInput == Str(<<"locator('#UserPassword, input[name=\"UserPassword\"]')">>)
loginButton == Str(<<"locator('#bSubmit, button[value=\"Login\"], button[type=\"submit\"]')">>)

BrowserTimeout == Throw("TimeoutError", [message |-> Str(<<"Timeout exceeded">>)])

\* BasePage
clickLog(locator) == << Str(<<"Clicking element: ">>) ++ locator >>

fillLog(locator, text) ==
    << Str(<<"Filling element: ">>) ++ locator ++ Str(<<" with text: ">>) ++ text >>

verifyElementVisibleLog(locator) == << Str(<<"Verifying element is visible: ">>) ++ locator >>

\* LoginPage
enterUsernameLog(username) ==
    << Str(<<"Entering username: ">>) ++ username >> \o fillLog(usernameInput, username)

enterPasswordLog(password) ==
    << Str(<<"Entering password">>) >> \o fillLog(passwordInput, password)

clickLoginButtonLog == << Str(<<"Clicking login button">>) >> \o clickLog(loginButton)

verifyLoginPageLoadedLog ==
    << Str(<<"Verifying login page is loaded">>) >> \o verifyElementVisibleLog(usernameInput)
    \o verifyElementVisibleLog(passwordInput) \o verifyElementVisibleLog(loginButton)

clearLoginFormLog ==
    << Str(<<"Clearing login form">>) >> \o fillLog(usernameInput, EmptyString)
    \o fillLog(passwordInput, EmptyString)

\* LoginPage.login: the outcome and the lines logged
login(failAt, username, password) ==
    [res |-> IF failAt \in {"fillUsername", "fillPassword", "click"}
             THEN BrowserTimeout ELSE Return(Undefined),
     log |-> << Str(<<"Performing login for user: ">>) ++ username >>
             \o enterUsernameLog(username)
             \o (IF failAt = "fillUsername" THEN << >>
                 ELSE enterPasswordLog(password)
                      \o (IF failAt = "fillPassword" THEN << >>
                          ELSE clickLoginButtonLog
                               \o (IF failAt = "click" THEN << >>
                                   ELSE << Str(<<"Login button clicked, waiting for navigation to complete">>) >>)))]

\* BaseFeature
logStepLog(step) == << Str(<<"[FEATURE STEP] ">>) ++ step >>

Rule60 == Str(<<"============================================================">>)

logFeatureStartLog(featureName) ==
    << Rule60, Str(<<"FEATURE: ">>) ++ featureName ++ Str(<<" - START">>), Rule60 >>

logFeatureEndLog(featureName) ==
    << Rule60, Str(<<"FEATURE: ">>) ++ featureName ++ Str(<<" - END">>), Rule60 >>

\* the catch block of performSuccessfulLoginWithConfigCreds
configLoginFailed(m, error) ==
    [m |-> m, res |-> error,
     log |-> << Str(<<"Login scenario with config credentials failed: ">>) ++ ErrorText(error),
                Str(<<"Screenshot taken: login_config_failure">>) >>]

Prepend(lines, r) == [r EXCEPT !.log = lines \o r.log]

ConfigLoginName == Str(<<"Successful Login Scenario (Config Credentials)">>)

\* after loginPage.login succeeded
configLoginAfterLogin(m, failAt, credentialKey, credentials) ==
    Prepend(logStepLog(Str(<<"Wait for redirect after login">>)),
        IF failAt = "stillOnLogin"
        THEN Prepend(<< Str(<<"Current URL after login: ">>) ++ Str(<<"https:", "/", "/", "host", "/", "go.aspx">>) >>,
                     configLoginFailed(m, Throw("Error",
                        [message |-> Str(<<"Still on login page - login may have failed">>)])))
        ELSE Prepend((IF failAt = "redirect"
                      THEN << Str(<<"Current URL after login: ">>) ++ Str(<<"https:", "/", "/", "host", "/", "other">>) >>
                      ELSE << Str(<<"Successfully redirected after login">>) >>)
                     \o logStepLog(Str(<<"Verify user is logged in">>))
                     \o << Str(<<"Checking if user is logged in by verifying logout button">>) >>,
                 IF failAt = "loggedIn"
                 THEN Prepend(<< Str(<<"User not logged in or logout button not found: ">>)
                                   ++ ErrorText(BrowserTimeout) >>,
                              configLoginFailed(m, Throw("Error",
                                 [message |-> Str(<<"User is not logged in after successful login">>)])))
                 ELSE [m |-> m, res |-> Return(Undefined),
                       log |-> << Str(<<"User ">>) ++ credentialKey ++ Str(<<" (">>)
                                    ++ Text(credentials.username) ++ Str(<<") successfully logged in">>) >>
                               \o logFeatureEndLog(ConfigLoginName)]))

\* LoginFeature.performSuccessfulLoginWithConfigCreds; credentialKeyArg is
\* Undefined when the argument is omitted
performSuccessfulLoginWithConfigCreds(m, credentialKeyArg, failAt) ==
    LET credentialKey == IF credentialKeyArg = Undefined THEN K_RBCClientUser ELSE credentialKeyArg
        c == getCredentials(m, credentialKey, Undefined)
        credentials == c.res.val
        b == getBaseUrl(c.m, Str(<<"QA">>))
        l == login(failAt, Text(credentials.username), Text(credentials.password))
    IN  Prepend(logFeatureStartLog(ConfigLoginName) \o getCredentialsLog(m, credentialKey, Undefined),
          IF c.res.kind # "ok" THEN configLoginFailed(c.m, c.res)
          ELSE Prepend(logStepLog(Str(<<"Navigate to login page using ConfigReader">>))
                       \o getBaseUrlLog(c.m, Str(<<"QA">>)),
            IF b.res.kind # "ok" THEN configLoginFailed(b.m, b.res)
            ELSE IF failAt = "goto" THEN configLoginFailed(b.m, BrowserTimeout)
            ELSE Prepend(logStepLog(Str(<<"Verify login page is loaded">>)) \o verifyLoginPageLoadedLog,
              IF failAt = "verify" THEN configLoginFailed(b.m, BrowserTimeout)
              ELSE Prepend(logStepLog(Str(<<"Clear any existing input">>)) \o clearLoginFormLog
                           \o logStepLog(Str(<<"Enter credentials for user: ">>) ++ credentialKey)
                           \o l.log,
                IF l.res.kind # "ok" THEN configLoginFailed(b.m, l.res)
                ELSE configLoginAfterLogin(b.m, failAt, credentialKey, credentials)))))

LoginFailures == {"none", "fillUsername", "fillPassword", "click"}
FeatureFailures == LoginFailures \cup {"goto", "verify", "redirect", "stillOnLogin", "loggedIn"}

PerformSuccessfulLoginWithConfigCreds ==
    \E credentialKey \in {Undefined, K_RBCClient, K_RBCClientUser}, failAt \in FeatureFailures :
        LET r == performSuccessfulLoginWithConfigCreds(Statics, credentialKey, failAt)
        IN  /\ Commit(r.m)
            /\ Record("performSuccessfulLoginWithConfigCreds",
                      [credentialKey |-> credentialKey, failAt |-> failAt], r.res, r.log)
            /\ UNCHANGED <<testConfig, processEnv>>

Login ==
    \E failAt \in LoginFailures,
       pair \in {Cred(Str(<<"MIJIRBC">>), Str(<<"Assetuse@1">>)),
                 Cred(Str(<<"MIJITDF">>), Str(<<"Assetuse@2">>))} :
        LET r == login(failAt, pair.username, pair.password)
        IN  /\ Record("login", [username |-> pair.username, password |-> pair.password,
                                failAt |-> failAt], r.res, r.log)
            /\ UNCHANGED <<testConfig, processEnv, cache, cacheEnabled, currentEnvironment, lastClear>>

GetCredentialsForLogin ==
    GetCredentialsOf({K_RBCClient, K_RBCClientUser}, {Undefined, Str(<<"QA">>)})

SetTestEnvForLogin == \E v \in {Str(<<"QA">>), Str(<<"dev">>), Undefined} : WriteEnv(TEST_ENV, v)

SetLoginOverride ==
    \E name \in {RBCCLIENT_USERNAME, RBCCLIENTUSER_USERNAME},
       v \in {Str(<<"custom_user">>), Undefined} : WriteEnv(name, v)

InitLogin ==
    /\ testConfig = ShippedConfig
    /\ InitStatics

NextLogin ==
    \/ PerformSuccessfulLoginWithConfigCreds
    \/ Login
    \/ GetCredentialsForLogin
    \/ SetTestEnvForLogin
    \/ SetLoginOverride

SpecLogin == InitLogin /\ [][NextLogin]_vars

\* C22: with the shipped table, the active environment QA and no override
\* set, getCredentials('RBCClientUser') returns { username: 'MIJIRBC',
\* password: 'Assetuse@1' }, and performSuccessfulLoginWithConfigCreds()
\* called without a key asks for the key 'RBCClientUser'.
DocumentedKeyResolves ==
    /\ (/\ IsCall("getCredentials")
        /\ last.args.credentialKey = K_RBCClientUser
        /\ DOMAIN processEnv = {}
        /\ last.before.currentEnvironment = Null)
          => last.res = Return(Cred(Str(<<"MIJIRBC">>), Str(<<"Assetuse@1">>)))
    /\ (/\ IsCall("performSuccessfulLoginWithConfigCreds")
        /\ last.args.credentialKey = Undefined)
          => \E i \in DOMAIN last.log : Contains(last.log[i], K_RBCClientUser)

\* getCredentials('RBCClientUser') on the shipped QA entry raises
\* UnknownCredential and lists the keys the entry has
DocumentedKeyUnknown ==
    (/\ IsCall("getCredentials")
     /\ last.args.credentialKey = K_RBCClientUser
     /\ DOMAIN processEnv = {}
     /\ last.before.currentEnvironment = Null)
       => /\ last.res.kind = "UnknownCredential"
          /\ last.res.info.available = <<K_RBCClient, K_TDFClient, K_testUser2, K_readOnlyUser>>

(* Helpers.retry (POM-Framework/utilities/helpers.ts).  The call is a      *)
(* frame that advances at each await: the call of fn is pending until fn   *)
(* resolves or rejects, the sleep is pending until its timer fires.  fn    *)
(* is the environment: each call resolves with a value or rejects with an  *)
(* error, chosen when it settles.                                          *)

MaxRetries == 3

Delays == {100, 1000}
FnValues == {"row", "page"}
FnErrors == {"timeout", "detached"}

\* Math.pow(2, i)
RECURSIVE Pow2(_)
Pow2(i) == IF i = 0 THEN 1 ELSE 2 * Pow2(i - 1)

\* a wait that does not grow
waitTimeConstant(delay, i) == delay

\* delay * Math.pow(2, i)
waitTime(delay, i) == delay * Pow2(i)

\* the test of the for loop, and what follows when it is false
retryLoop(f) ==
    IF f.i < f.maxRetries
    THEN [f EXCEPT !.pc = "calling", !.started = @ + 1]
    ELSE [f EXCEPT !.pc = "thrown",
                   !.res = Throw("Error", [message |-> Str(<<"Max retries exceeded">>)])]

\* Helpers.retry(fn, maxRetries, delay) up to its first await
retry(maxRetries, delay) ==
    retryLoop([NoRetry EXCEPT !.maxRetries = maxRetries, !.delay = delay])

\* return await fn(), fn resolved
retryReturn(f, value) ==
    [f EXCEPT !.pc = "returned", !.calls = Append(@, Return(value)), !.res = Return(value)]

\* the catch block, fn rejected; a logged line is the sequence of the
\* pieces of its template literal
retryCatch(f, error) ==
    LET failed == [f EXCEPT !.calls = Append(@, Throw("Error", [message |-> error]))]
    IN  IF f.i = f.maxRetries - 1
        THEN [failed EXCEPT !.pc = "thrown", !.res = Throw("Error", [message |-> error])]
        ELSE [failed EXCEPT
                !.pc = "sleeping",
                !.sleeps = Append(@, waitTime(f.delay, f.i)),
                !.log = @ \o << <<"Retry attempt ", f.i + 1, "/", f.maxRetries, " failed. Waiting ",
                                  waitTime(f.delay, f.i), "ms...">>,
                                <<"Sleeping for ", waitTime(f.delay, f.i), "ms">> >>]

\* the timer of Helpers.sleep fired: i++ and the loop test
retryWake(f) == retryLoop([f EXCEPT !.i = @ + 1])

RetryUnchanged ==
    UNCHANGED <<testConfig, processEnv, cache, cacheEnabled, currentEnvironment, lastClear, last,
                dataProvider>>

Retry ==
    /\ retryFrame.pc \in {"idle", "returned", "thrown"}
    /\ \E maxRetries \in 0..MaxRetries, delay \in Delays :
          retryFrame' = retry(maxRetries, delay)
    /\ RetryUnchanged

FnResolves ==
    /\ retryFrame.pc = "calling"
    /\ \E value \in FnValues : retryFrame' = retryReturn(retryFrame, value)
    /\ RetryUnchanged

FnRejects ==
    /\ retryFrame.pc = "calling"
    /\ \E error \in FnErrors : retryFrame' = retryCatch(retryFrame, error)
    /\ RetryUnchanged

SleepElapses ==
    /\ retryFrame.pc = "sleeping"
    /\ retryFrame' = retryWake(retryFrame)
    /\ RetryUnchanged

InitRetry ==
    /\ testConfig = ShippedConfig
    /\ InitStatics

NextRetry ==
    \/ Retry
    \/ FnResolves
    \/ FnRejects
    \/ SleepElapses

SpecRetry == InitRetry /\ [][NextRetry]_vars

\* The calls of fn that failed.
FailedCalls == {k \in DOMAIN retryFrame.calls : retryFrame.calls[k].kind # "ok"}

\* C23: Helpers.retry(fn, maxRetries, delay) with maxRetries >= 1 calls fn
\* one call at a time, until the first success or until maxRetries calls
\* have failed; after the i-th failed call (i from 0) it sleeps
\* delay * 2^i ms, only when another attempt remains; it returns the value
\* of the first successful call without calling fn again; when all
\* maxRetries calls fail it rethrows the error of the last call.
RetryBacksOffExponentially ==
    LET f == retryFrame
        n == Len(f.calls)
    IN  f.maxRetries >= 1 =>
          /\ f.started <= f.maxRetries
          /\ f.started - n = (IF f.pc = "calling" THEN 1 ELSE 0)
          /\ \A k \in 1..(n - 1) : k \in FailedCalls
          /\ Len(f.sleeps) = (IF Cardinality(FailedCalls) < f.maxRetries
                              THEN Cardinality(FailedCalls)
                              ELSE f.maxRetries - 1)
          /\ \A k \in DOMAIN f.sleeps : f.sleeps[k] = f.delay * (2 ^ (k - 1))
          /\ f.pc = "sleeping" => n = Len(f.sleeps) /\ n < f.maxRetries
          /\ f.pc = "returned" => /\ n >= 1
                                  /\ f.calls[n].kind = "ok"
                                  /\ f.res = f.calls[n]
          /\ f.pc = "thrown" => /\ n = f.maxRetries
                                /\ FailedCalls = 1..n
                                /\ f.res = f.calls[n]

\* three calls failed: two sleeps of delay and 2 * delay, and the error of
\* the third call is thrown
AllAttemptsFailed ==
    /\ retryFrame.pc = "thrown"
    /\ retryFrame.maxRetries = 3
    /\ retryFrame.delay = 1000
    /\ retryFrame.sleeps = <<1000, 2000>>
    /\ retryFrame.calls[2].info.message # retryFrame.calls[3].info.message
    /\ retryFrame.res = retryFrame.calls[3]

(* Failed selection of the active environment (Spec)                       *)

\* C24: a setEnvironment(name) that fails with UnknownEnvironment changes
\* nothing: the explicit name, the content of the cache and the caching
\* flag are what they were before the call.
FailedSetEnvironmentChangesNothing ==
    (IsCall("setEnvironment") /\ last.res.kind = "UnknownEnvironment")
        => /\ currentEnvironment = last.before.currentEnvironment
           /\ cache = last.before.cache
           /\ cacheEnabled = last.before.cacheEnabled

\* setEnvironment('ghost') fails while the cache holds an entry
SetEnvironmentFailedOnFilledCache ==
    /\ IsCall("setEnvironment")
    /\ last.args.envName = Str(<<"ghost">>)
    /\ last.res.kind = "UnknownEnvironment"
    /\ cacheEnabled
    /\ DOMAIN cache # {}

(* Transparency of the cache (Spec)                                        *)

\* The statics before the latest call, with caching disabled.
Uncached ==
    [cache |-> EmptyMap, cacheEnabled |-> FALSE,
     currentEnvironment |-> last.before.currentEnvironment, lastClear |-> lastClear]

\* C25: every cache entry is stored under env_e for an environment name e
\* of the table and holds exactly the table's entry of e, and each lookup
\* with an explicit environment name returns the value or raises the error
\* that the same call gives with caching disabled (getUrl is getBaseUrl
\* followed by getDomainPath).
CacheIsTransparent ==
    /\ \A key \in DOMAIN cache :
          \E i \in DOMAIN Environments :
             /\ key = cacheKeyOf(Environments[i].k)
             /\ cache[key] = Environments[i].v
    /\ (last.op \in Lookups /\ Truthy(last.args.envName)) =>
          last.res = (CASE last.op = "getEnvironmentConfig" ->
                             getEnvironmentConfig(Uncached, last.args.envName).res
                        [] last.op = "getBaseUrl" -> getBaseUrl(Uncached, last.args.envName).res
                        [] last.op = "getDomainPath" ->
                             getDomainPath(Uncached, last.args.pathKey, last.args.envName).res
                        [] last.op = "getCredentials" ->
                             getCredentials(Uncached, last.args.credentialKey, last.args.envName).res)

(* Independence of the credential keys (SpecKeys): getCredentials for     *)
(* each key of the QA credentials of SpecCredentials, between writes of    *)
(* the override variables of 'RBCClient' and of 'test-user'.               *)

\* The keys of the QA credentials.
TableKeys == {K_RBCClient, K_TDFClient, K_test_dash_user, K_test_underscore_user}

GetCredentialsForKeys == GetCredentialsOf(TableKeys, {Str(<<"QA">>)})

SetKeyOverride ==
    \E name \in {RBCCLIENT_USERNAME, RBCCLIENT_PASSWORD, TEST_USER_USERNAME},
       v \in {Str(<<"custom">>), Str(<<"other">>), Undefined} : WriteEnv(name, v)

NextKeys ==
    \/ GetCredentialsForKeys
    \/ SetKeyOverride

SpecKeys == InitCredentials /\ [][NextKeys]_vars

\* C26: for two credential keys A and B of one environment that derive
\* different prefixes, a write to the username or password override
\* variable derived from A changes nothing in what getCredentials(B, env)
\* returns ('test-user' and 'test_user' derive the same prefix and share
\* their variables).
OverridesDoNotLeak ==
    [][ last'.op = "processEnv" =>
          \A B \in TableKeys :
             (\E A \in TableKeys :
                 /\ DerivedPrefix(A) # DerivedPrefix(B)
                 /\ last'.args.name \in {DerivedPrefix(A) ++ USERNAME_SUFFIX,
                                         DerivedPrefix(A) ++ PASSWORD_SUFFIX})
               => getCredentials(Statics, B, Str(<<"QA">>)).res'
                    = getCredentials(Statics, B, Str(<<"QA">>)).res ]_vars

\* getCredentials('TDFClient') returns the table pair while both override
\* variables of 'RBCClient' are set
OtherKeyUntouched ==
    /\ KnownCredentialCall
    /\ last.args.credentialKey = K_TDFClient
    /\ NonEmptyString(EnvVar(RBCCLIENT_USERNAME))
    /\ NonEmptyString(EnvVar(RBCCLIENT_PASSWORD))
    /\ last.res.val = Cred(Str(<<"MIJITDF">>), Str(<<"Assetuse@2">>))

(* validateConfig as a start-up guard (SpecGuard): tables of at most       *)
(* MaxEnvs environments, among them definitions the method accepts and     *)
(* definitions it rejects; validateConfig and the lookups for every        *)
(* environment name of the table.                                          *)

GuardPool ==
    << Entry(Str(<<"legacy">>), Legacy),
       Entry(Str(<<"both">>), Legacy @@ [urlConfig |-> FullUrlConfig]),
       Entry(Str(<<"emptyPath">>),
             [Legacy EXCEPT !.domainPaths =
                 [entries |-> << Entry(Str(<<"login">>), Str(<<"/", "login">>)),
                                 Entry(Str(<<"logout">>), EmptyString) >>]]),
       Entry(Str(<<"built">>), [Legacy EXCEPT !.baseUrl = EmptyString] @@ [urlConfig |-> FullUrlConfig]),
       Entry(Str(<<"halfCredential">>),
             [Legacy EXCEPT !.credentials =
                 [entries |-> << Entry(K_admin, Cred(Str(<<"admin@localhost">>), Str(<<"local123">>))),
                                 Entry(K_testUser1, Cred(Str(<<"test@localhost">>), EmptyString)) >>]]) >>

GuardTables ==
    { [environments |-> [entries |-> [i \in DOMAIN picks |-> GuardPool[picks[i]]]]] :
        picks \in {q \in UNION {[1..n -> DOMAIN GuardPool] : n \in 0..MaxEnvs} : Injective(q)} }

GetBaseUrlOfTable == GetBaseUrlOf(Range(getAvailableEnvironments))

GetDomainPathOfTable ==
    GetDomainPathOf({Str(<<"login">>), Str(<<"logout">>)}, Range(getAvailableEnvironments))

GetCredentialsOfTable == GetCredentialsOf({K_admin, K_testUser1}, Range(getAvailableEnvironments))

InitGuard ==
    /\ testConfig \in GuardTables
    /\ InitStatics

NextGuard ==
    \/ ValidateConfig
    \/ GetBaseUrlOfTable
    \/ GetDomainPathOfTable
    \/ GetCredentialsOfTable
    \/ SetBaseUrlVar

SpecGuard == InitGuard /\ [][NextGuard]_vars

\* The table's entry of the environment the latest call names.
NamedConfig == Prop(testConfig.environments, last.args.envName)

\* C27: on a table for which validateConfig() returns true, and with no
\* override variable set, getBaseUrl(e) succeeds for every environment e,
\* getDomainPath(k, e) succeeds for every key k of e's domainPaths, and
\* getCredentials(c, e) succeeds with a non-empty username and password for
\* every key c of e's credentials.
ValidatedTableResolves ==
    (validateConfig = Return(TRUE) /\ DOMAIN processEnv = {}) =>
        /\ IsCall("getBaseUrl") => last.res.kind = "ok"
        /\ (IsCall("getDomainPath") /\ HasOwn(NamedConfig.domainPaths, last.args.pathKey))
              => last.res.kind = "ok"
        /\ (IsCall("getCredentials") /\ HasOwn(NamedConfig.credentials, last.args.credentialKey))
              => /\ last.res.kind = "ok"
                 /\ NonEmptyString(last.res.val.username)
                 /\ NonEmptyString(last.res.val.password)

(* DataProvider (POM-Framework/utilities/data-readers/dataProvider.ts).    *)
(* getData is asynchronous: between the start of its file read and the     *)
(* continuation after the await any other call may run.  The rows a read   *)
(* yields carry the number of clearCache() calls made before the read      *)
(* began.                                                                  *)

MaxReads == 2
MaxClears == 2

DataFiles ==
    {Str(<<"login", ".", "csv">>), Str(<<"users", ".", "XLSX">>), Str(<<"notes", ".", "txt">>)}
SheetNames == {Undefined, Str(<<"Sheet1">>)}

\* path.extname(filePath).toLowerCase()
extname(filePath) ==
    LET p == filePath.str
        last3 == p[Len(p)]
    IN  IF Len(p) >= 3 /\ p[Len(p) - 1] = "."
        THEN Str(<<".", IF last3 = "XLSX" THEN "xlsx" ELSE IF last3 = "CSV" THEN "csv" ELSE last3>>)
        ELSE EmptyString

dataCacheKey(filePath, sheetName) ==
    IF Truthy(sheetName) THEN filePath ++ Str(<<":">>) ++ sheetName ELSE filePath

\* DataProvider.clearCache
dataClearCache(d) == [d EXCEPT !.cache = EmptyMap, !.clears = @ + 1]

\* DataProvider.setCaching
dataSetCaching(d, enabled) ==
    LET d1 == [d EXCEPT !.cacheEnabled = enabled]
    IN  IF ~enabled THEN dataClearCache(d1) ELSE d1

\* getData up to its await: a cached answer, an error, or a read that begins
getData(d, filePath, sheetName) ==
    LET cacheKey == dataCacheKey(filePath, sheetName)
        ext == extname(filePath)
    IN  IF d.cacheEnabled /\ cacheKey \in DOMAIN d.cache
        THEN [d EXCEPT !.res = Return(d.cache[cacheKey])]
        ELSE IF ext \in {Str(<<".", "csv">>), Str(<<".", "xlsx">>), Str(<<".", "xls">>)}
        THEN [d EXCEPT !.reads = Append(@, [cacheKey |-> cacheKey, began |-> d.clears])]
        ELSE [d EXCEPT !.res = Throw("UnsupportedFileType", [ext |-> ext])]

Without(seq, i) == SubSeq(seq, 1, i - 1) \o SubSeq(seq, i + 1, Len(seq))

\* getData after its await, the read i resolved
getDataResume(d, i) ==
    LET read == d.reads[i]
        data == [rows |-> read.cacheKey, began |-> read.began]
    IN  [d EXCEPT !.reads = Without(@, i),
                  !.cache = IF d.cacheEnabled THEN (read.cacheKey :> data) @@ @ ELSE @,
                  !.res = Return(data)]

\* the read i rejected: getData rethrows
getDataFail(d, i) ==
    [d EXCEPT !.reads = Without(@, i), !.res = Throw("ReadError", [file |-> d.reads[i].cacheKey])]

DataUnchanged ==
    UNCHANGED <<testConfig, processEnv, cache, cacheEnabled, currentEnvironment, lastClear, last,
                retryFrame>>

GetData ==
    /\ Len(dataProvider.reads) < MaxReads
    /\ \E filePath \in DataFiles, sheetName \in SheetNames :
          dataProvider' = getData(dataProvider, filePath, sheetName)
    /\ DataUnchanged

ReadResolves ==
    /\ \E i \in DOMAIN dataProvider.reads : dataProvider' = getDataResume(dataProvider, i)
    /\ DataUnchanged

ReadRejects ==
    /\ \E i \in DOMAIN dataProvider.reads : dataProvider' = getDataFail(dataProvider, i)
    /\ DataUnchanged

DataClearCache ==
    /\ dataProvider.clears < MaxClears
    /\ dataProvider' = [dataClearCache(dataProvider) EXCEPT !.res = Return(Undefined)]
    /\ DataUnchanged

DataSetCaching ==
    /\ dataProvider.clears < MaxClears
    /\ \E enabled \in BOOLEAN :
          dataProvider' = [dataSetCaching(dataProvider, enabled) EXCEPT !.res = Return(Undefined)]
    /\ DataUnchanged

InitData ==
    /\ testConfig = ShippedConfig
    /\ InitStatics

NextData ==
    \/ GetData
    \/ ReadResolves
    \/ ReadRejects
    \/ DataClearCache
    \/ DataSetCaching

SpecData == InitData /\ [][NextData]_vars

\* C28: clearCache() is not undone by a read in flight: after a
\* clearCache() the cache holds only rows whose read began after it, so
\* every cache entry was read after the latest clearCache().
ClearCacheNotUndone ==
    \A cacheKey \in DOMAIN dataProvider.cache :
        dataProvider.cache[cacheKey].began = dataProvider.clears

(* The log of the login page (SpecLogin)                                   *)

\* C29: LoginPage.login(username, password) never writes the password to
\* the log: no line logged by login, enterUsername, enterPassword,
\* clickLoginButton, BasePage.fill or BasePage.click contains it.
LoginNeverLogsPassword ==
    IsCall("login") =>
        \A i \in DOMAIN last.log : ~Contains(last.log[i], last.args.password)

(* Global set-up and the credentials fixture (SpecSetup):                  *)
(* fetchAndStoreCredentials of POM-Framework/test-hooks/globalSetup.ts and *)
(* the credentialKey / credentials fixtures of the test fixtures, over the *)
(* shipped table, between writes of TEST_ENV and AUTH_CREDENTIAL_KEY.      *)

AUTH_CREDENTIAL_KEY == Str(<<"AUTH_CREDENTIAL_KEY">>)
LOGIN_USERNAME == Str(<<"LOGIN_USERNAME">>)
LOGIN_PASSWORD == Str(<<"LOGIN_PASSWORD">>)
CREDENTIAL_KEY == Str(<<"CREDENTIAL_KEY">>)

\* fetchAndStoreCredentials: the statics, the outcome, process.env and the
\* lines logged; an assignment to process.env stores the value as a string;
\* the piece "U+2713" is the check mark the two last lines begin with
fetchAndStoreCredentials(m) ==
    LET env == Or(EnvVar(TEST_ENV), Str(<<"QA">>))
        credentialKey == Or(EnvVar(AUTH_CREDENTIAL_KEY), K_RBCClient)
        r == getCredentials(m, credentialKey, env)
        credentials == r.res.val
        fetching == << Str(<<"Fetching login credentials from test.config...">>) >>
                    \o getCredentialsLog(m, credentialKey, env)
    IN  IF r.res.kind # "ok"
        THEN [m |-> r.m, res |-> r.res, env |-> processEnv,
              log |-> fetching \o << Str(<<"Failed to fetch credentials: ">>) ++ ErrorText(r.res) >>]
        ELSE [m |-> r.m, res |-> Return(Undefined),
              env |-> (LOGIN_USERNAME :> Text(credentials.username))
                      @@ (LOGIN_PASSWORD :> Text(credentials.password))
                      @@ (CREDENTIAL_KEY :> credentialKey) @@ processEnv,
              log |-> fetching
                      \o << Str(<<"U+2713", " Fetched credentials for: ">>) ++ credentialKey
                              ++ Str(<<" (username: ">>) ++ Text(credentials.username) ++ Str(<<")">>),
                            Str(<<"U+2713", " Credentials stored in environment variables for tests">>) >>]

\* the credentials fixture; credentialKeyOption is Undefined when no test
\* configures the option credentialKey
credentialsFixture(m, credentialKeyOption) ==
    LET credentialKey == IF credentialKeyOption = Undefined THEN K_RBCClient ELSE credentialKeyOption
        env == Or(EnvVar(TEST_ENV), Str(<<"QA">>))
        r == getCredentials(m, credentialKey, env)
    IN  [m |-> r.m, res |-> r.res,
         log |-> << Str(<<"Fetching credentials for: ">>) ++ credentialKey
                      ++ Str(<<" (Environment: ">>) ++ env ++ Str(<<")">>) >>
                 \o getCredentialsLog(m, credentialKey, env)]

FetchAndStoreCredentials ==
    LET r == fetchAndStoreCredentials(Statics)
    IN  /\ Commit(r.m)
        /\ processEnv' = r.env
        /\ Record("fetchAndStoreCredentials", NoArgs, r.res, r.log)
        /\ UNCHANGED testConfig

CredentialsFixture ==
    \E credentialKey \in {Undefined, K_TDFClient, K_admin} :
        LET r == credentialsFixture(Statics, credentialKey)
        IN  /\ Commit(r.m)
            /\ Record("credentials", [credentialKey |-> credentialKey], r.res, r.log)
            /\ UNCHANGED <<testConfig, processEnv>>

ShippedNames == {Str(<<"dev">>), Str(<<"QA">>), Str(<<"prod">>), Str(<<"local">>)}

SelectEnvironment == \E v \in ShippedNames \cup {Undefined} : WriteEnv(TEST_ENV, v)

SetAuthCredentialKey == \E v \in {K_admin, Undefined} : WriteEnv(AUTH_CREDENTIAL_KEY, v)

NextSetup ==
    \/ FetchAndStoreCredentials
    \/ CredentialsFixture
    \/ SelectEnvironment
    \/ SetAuthCredentialKey

SpecSetup == InitLogin /\ [][NextSetup]_vars

\* C30: for every environment name of the shipped table selected through
\* TEST_ENV, with AUTH_CREDENTIAL_KEY unset and no credential key
\* configured on the fixture, the default key 'RBCClient' resolves:
\* fetchAndStoreCredentials and the credentials fixture obtain a pair
\* without error, and fetchAndStoreCredentials stores LOGIN_USERNAME,
\* LOGIN_PASSWORD and CREDENTIAL_KEY from that pair.
DefaultKeyResolvesEverywhere ==
    (EnvVar(TEST_ENV) \in ShippedNames /\ EnvVar(AUTH_CREDENTIAL_KEY) = Undefined) =>
        LET pair == getCredentials(Statics, K_RBCClient, EnvVar(TEST_ENV)).res
        IN  /\ IsCall("fetchAndStoreCredentials") =>
                  /\ last.res.kind = "ok"
                  /\ pair.kind = "ok"
                  /\ EnvVar(LOGIN_USERNAME) = pair.val.username
                  /\ EnvVar(LOGIN_PASSWORD) = pair.val.password
                  /\ EnvVar(CREDENTIAL_KEY) = K_RBCClient
            /\ (IsCall("credentials") /\ last.args.credentialKey = Undefined) =>
                  /\ last.res.kind = "ok"
                  /\ last.res = pair
====
